---------------------------- MODULE Spec2Model ----------------------------
(***************************************************************************)
(* Model of phone-buddy: the perception engine (vision.py), the action     *)
(* executor (executor.py) and the LangGraph orchestration state machine    *)
(* (graph_agent.py).                                                       *)
(***************************************************************************)
EXTENDS Integers, Sequences, FiniteSets, TLC

VARIABLES
    \* ---- the device (environment read by vision.py) ----
    device_tree,          \* the UI hierarchy the device would dump now
    \* ---- VisionModule (vision.py:68-74) ----
    current_elements,     \* self.current_elements
    uid_counter,          \* self.uid_counter
    ui_state,             \* the dict returned by the latest get_ui_state()
    captures,             \* number of get_ui_state() calls made so far
    capture_env,          \* how the device behaved during the latest of them
    \* ---- AgentState (graph_agent.py:35-53) ----
    messages, current_screen, current_app, step_count,
    last_action, last_result, status, pending_confirmation,
    \* ---- the compiled graph and its consumer ----
    confirm_actions,      \* AndroidAgent.confirm_actions
    consumer,             \* "run_task": streamed by run_task; "drain": streamed to the end
    node,                 \* the node the graph runs next, "END" when it has finished
    yields,               \* node updates streamed so far
    stopped,              \* why run_task left its loop: "no", "completed", "safety"
    final_state,          \* run_task's final_state: the last node update it saw
    \* ---- what the collaborators have seen ----
    request,              \* the message list of the latest oracle call
    oracle_out,           \* how the latest oracle call ended: "tools", "text", "fail"
    oracle_calls,         \* oracle calls made so far
    invoked,              \* ids of the tool calls dispatched to a tool, in order
    device_cmds,          \* the device commands issued by the tools, in order
    \* ---- bookkeeping of the model's bound on unusual steps ----
    odd_used, act_odd,
    runs,                 \* run_task calls made so far
    \* ---- the JSON-protocol brain driven on its own (brain.py) ----
    conversation_history, \* AgentBrain.conversation_history
    brain_replies,        \* what the chat service gave to each think() call, in order
    brain_action,         \* the AgentAction the latest think() call returned
    \* ---- the action executor driven on its own (executor.py) ----
    display,              \* what device.info reports
    exec_action,          \* the AgentAction of the latest execute() call
    exec_result,          \* what that call returned, and whether it raised
    exec_fault,           \* which collaborator call of that execute() raised (0: none)
    exec_count            \* execute() calls made so far

visionVars == <<device_tree, current_elements, uid_counter, ui_state, captures,
               capture_env>>
agentVars == <<messages, current_screen, current_app, step_count,
               last_action, last_result, status, pending_confirmation>>
runVars == <<confirm_actions, consumer, node, yields, stopped, final_state>>
seenVars == <<request, oracle_out, oracle_calls, invoked, device_cmds>>
boundVars == <<odd_used, act_odd, runs>>
execVars == <<display, exec_action, exec_result, exec_fault, exec_count>>

brainVars == <<conversation_history, brain_replies, brain_action>>

vars == <<visionVars, agentVars, runVars, seenVars, boundVars, execVars, brainVars>>

(***************************************************************************)
(* Bounds of the model.                                                    *)
(***************************************************************************)
MaxNodes == 3        \* nodes in a dumped UI tree
MaxCaptures == 2     \* captures made in one behaviour of VisionSpec
MaxExec == 2         \* execute() calls in one behaviour of ExecSpec
MaxThinks == 3       \* think() calls made in one behaviour of BrainSpec
MaxOddSteps == 1     \* per run: failed captures, plus steps whose reply or device is unusual
MaxRuns == 2         \* run_task calls made in one behaviour of SessionSpec
MaxEarlierSteps == 2 \* steps of a run that SessionSpec lets another run follow

(***************************************************************************)
(* Constants of the program.                                               *)
(***************************************************************************)
MAX_STEPS == 20      \* the step ceiling of should_continue and after_act
SAFETY_LIMIT == 50   \* run_task: `if step > 50: break`
SCREEN_LIMIT == 1500 \* reason: `screen[:1500] if len(screen) > 1500 else screen`

(***************************************************************************)
(* Text encodings.  A bounds string is a sequence of tokens: a run of      *)
(* decimal digits is one "num" token carrying its value, every other       *)
(* character is a token of its own kind.  A class name is a sequence of    *)
(* string chunks, "." being a chunk of its own; a resource id likewise,    *)
(* with "/" a chunk of its own; a text or a description is a sequence of   *)
(* chunks too.  << >> is the empty string of all of them.                  *)
(***************************************************************************)
Num(n) == [k |-> "num", v |-> n]
Sym(c) == [k |-> c, v |-> 0]

BoundsStr(l, t, r, b) ==
    << Sym("["), Num(l), Sym(","), Num(t), Sym("]"),
       Sym("["), Num(r), Sym(","), Num(b), Sym("]") >>

\* "[0,0][0,0]", the default of node.get("bounds", ...) (vision.py:140)
DefaultBoundsStr == BoundsStr(0, 0, 0, 0)

\* VisionModule._parse_bounds: re.match of \[(\d+),(\d+)\]\[(\d+),(\d+)\]
\* at the start of the string; no match gives (0, 0, 0, 0).
ParseBounds(s) ==
    IF /\ Len(s) >= 10
       /\ s[1].k = "[" /\ s[2].k = "num" /\ s[3].k = "," /\ s[4].k = "num"
       /\ s[5].k = "]" /\ s[6].k = "[" /\ s[7].k = "num" /\ s[8].k = ","
       /\ s[9].k = "num" /\ s[10].k = "]"
    THEN << s[2].v, s[4].v, s[7].v, s[9].v >>
    ELSE << 0, 0, 0, 0 >>

\* Python's `t in class_name` on strings: t occurs as a contiguous run.
IsSubstring(t, s) ==
    \E i \in 0..(Len(s) - Len(t)) :
        \A j \in 1..Len(t) : s[i + j] = t[j]

\* s.split(sep)[-1]: what follows the last sep
RECURSIVE LastSegment(_, _)
LastSegment(s, sep) ==
    IF \A i \in 1..Len(s) : s[i] # sep
    THEN s
    ELSE LastSegment(Tail(s), sep)

Cls(pkg, sub, name) == << pkg, ".", sub, ".", name >>

C_Button == Cls("android", "widget", "Button")
C_View == Cls("android", "view", "View")
C_ViewGroup == << "android", ".", "view", ".", "View", "Group" >>
C_FrameLayout == Cls("android", "widget", "FrameLayout")
C_WebView == Cls("android", "webkit", "WebView")
C_Unknown == << "unknown" >>

\* meaningful_types of _is_meaningful_element (vision.py:103-121)
meaningful_types ==
    { C_Button,
      Cls("android", "widget", "EditText"),
      Cls("android", "widget", "TextView"),
      Cls("android", "widget", "ImageButton"),
      Cls("android", "widget", "ImageView"),
      Cls("android", "widget", "CheckBox"),
      Cls("android", "widget", "Switch"),
      Cls("android", "widget", "RadioButton"),
      Cls("android", "widget", "Spinner"),
      Cls("android", "widget", "SeekBar"),
      C_View,
      Cls("android", "widget", "LinearLayout"),
      C_FrameLayout,
      Cls("android", "widget", "RelativeLayout"),
      << "androidx", ".", "recyclerview", ".", "widget", ".", "RecyclerView" >>,
      Cls("android", "widget", "ScrollView"),
      Cls("android", "widget", "ListView") }

(***************************************************************************)
(* An XML node: `present` is the set of attributes the node carries, the   *)
(* other fields are the attribute values (strings as dumped); content_desc *)
(* and resource_id stand for the attributes content-desc and resource-id.  *)
(***************************************************************************)
AttrNames == { "class", "text", "content_desc", "resource_id", "bounds",
               "clickable", "scrollable", "enabled", "focused" }

\* node.get(key, default)
Get(n, key, default) == IF key \in n.present THEN n[key] ELSE default

MkNode(cls, text, desc, rid, bounds, clickable, scrollable, enabled) ==
    [ present |-> AttrNames, class |-> cls, text |-> text,
      content_desc |-> desc, resource_id |-> rid, bounds |-> bounds,
      clickable |-> clickable, scrollable |-> scrollable,
      enabled |-> enabled, focused |-> "false" ]

\* the node of the spec's scenario: a Login button
N_Login == MkNode(C_Button, << "Login" >>, << >>, << >>, BoundsStr(10, 20, 110, 60),
                  "true", "false", "true")
\* a container with a resource id and a zero-area rectangle
N_ZeroArea == MkNode(C_FrameLayout, << >>, << >>, << "com.app:id", "/", "content" >>,
                     BoundsStr(0, 0, 0, 0), "false", "false", "true")
\* a disabled button
N_Disabled == MkNode(C_Button, << "Off" >>, << >>, << >>, BoundsStr(0, 0, 50, 50),
                     "true", "false", "false")
\* a described image that is not clickable
N_Image == MkNode(C_View, << >>, << "logo" >>, << >>, BoundsStr(5, 5, 8, 10),
                  "false", "false", "true")

NodeKinds == { N_Login, N_ZeroArea, N_Disabled, N_Image }

(***************************************************************************)
(* The nodes a single-node dump may hold: every combination of the         *)
(* attribute values below, with all attributes present or some missing.    *)
(* The bounds strings are a rectangle, the zero rectangle, a rectangle of  *)
(* zero width, a rectangle pair cut short, one with a negative number,     *)
(* and a rectangle followed by one more character.                         *)
(***************************************************************************)
B_Good == BoundsStr(10, 20, 111, 61)
B_ZeroWidth == BoundsStr(5, 5, 5, 10)
B_Truncated == SubSeq(B_Good, 1, 7)
B_Negative == << Sym("["), Sym("-"), Num(5), Sym(","), Num(0), Sym("]"),
                 Sym("["), Num(10), Sym(","), Num(10), Sym("]") >>
B_Trailing == B_Good \o << Sym("x") >>

NodeBounds == { B_Good, DefaultBoundsStr, B_ZeroWidth, B_Truncated, B_Negative,
                B_Trailing }

NodeClasses == { C_Button, C_ViewGroup, C_WebView }

NodeTexts == { << >>, << "Login" >> }

NodeDescs == { << >>, << "logo" >> }

NodeIds == { << >>, << "com.app:id", "/", "content" >> }

NodeFlags == { "true", "false" }

PresentSets ==
    { AttrNames, AttrNames \ { "bounds" }, AttrNames \ { "class" },
      AttrNames \ { "enabled", "clickable", "scrollable" } }

AllNodes ==
    { [ MkNode(c, t, d, r, b, ck, sc, en) EXCEPT !.present = p ] :
        c \in NodeClasses, t \in NodeTexts, d \in NodeDescs, r \in NodeIds,
        b \in NodeBounds, ck \in NodeFlags, sc \in NodeFlags, en \in NodeFlags,
        p \in PresentSets }

(***************************************************************************)
(* UIElement (vision.py:12-24) and VisionModule's parsing.                 *)
(***************************************************************************)
UIElement(uid, n, bounds) ==
    [ uid |-> uid,
      element_type |-> LastSegment(Get(n, "class", C_Unknown), "."),
      text |-> Get(n, "text", << >>),
      content_desc |-> Get(n, "content_desc", << >>),
      resource_id |-> Get(n, "resource_id", << >>),
      bounds |-> bounds,
      clickable |-> (Get(n, "clickable", "false") = "true"),
      scrollable |-> (Get(n, "scrollable", "false") = "true"),
      enabled |-> (Get(n, "enabled", "true") = "true"),
      focused |-> (Get(n, "focused", "false") = "true") ]

\* _is_meaningful_element without the test of enabled
IsMeaningfulElement_any_enabled(n) ==
    LET text == Get(n, "text", << >>)
        content_desc == Get(n, "content_desc", << >>)
        resource_id == Get(n, "resource_id", << >>)
        clickable == Get(n, "clickable", "false") = "true"
        scrollable == Get(n, "scrollable", "false") = "true"
        has_content == text # << >> \/ content_desc # << >> \/ resource_id # << >>
        is_interactive == clickable \/ scrollable
        class_name == Get(n, "class", << >>)
        is_meaningful_type ==
            \E t \in meaningful_types : IsSubstring(t, class_name)
    IN  has_content \/ (is_interactive /\ is_meaningful_type)

\* _is_meaningful_element that takes every interactive node, whatever its class
IsMeaningfulElement_any_class(n) ==
    LET text == Get(n, "text", << >>)
        content_desc == Get(n, "content_desc", << >>)
        resource_id == Get(n, "resource_id", << >>)
        clickable == Get(n, "clickable", "false") = "true"
        scrollable == Get(n, "scrollable", "false") = "true"
        enabled == Get(n, "enabled", "true") = "true"
        has_content == text # << >> \/ content_desc # << >> \/ resource_id # << >>
        is_interactive == clickable \/ scrollable
    IN  IF ~enabled
        THEN FALSE
        ELSE has_content \/ is_interactive

\* VisionModule._is_meaningful_element
IsMeaningfulElement(n) ==
    LET text == Get(n, "text", << >>)
        content_desc == Get(n, "content_desc", << >>)
        resource_id == Get(n, "resource_id", << >>)
        clickable == Get(n, "clickable", "false") = "true"
        scrollable == Get(n, "scrollable", "false") = "true"
        enabled == Get(n, "enabled", "true") = "true"
        has_content == text # << >> \/ content_desc # << >> \/ resource_id # << >>
        is_interactive == clickable \/ scrollable
        class_name == Get(n, "class", << >>)
        is_meaningful_type ==
            \E t \in meaningful_types : IsSubstring(t, class_name)
    IN  IF ~enabled
        THEN FALSE
        ELSE has_content \/ (is_interactive /\ is_meaningful_type)

\* _parse_node that keeps the elements of zero size
ParseNode_keeps_empty(n, counter) ==
    IF ~IsMeaningfulElement(n)
    THEN [ counter |-> counter, found |-> FALSE, element |-> << >> ]
    ELSE LET c == counter + 1
             bounds == ParseBounds(Get(n, "bounds", DefaultBoundsStr))
         IN  [ counter |-> c, found |-> TRUE, element |-> UIElement(c, n, bounds) ]

\* _parse_node that numbers the element but does not advance the counter
ParseNode_stale_counter(n, counter) ==
    IF ~IsMeaningfulElement(n)
    THEN [ counter |-> counter, found |-> FALSE, element |-> << >> ]
    ELSE LET c == counter + 1
             bounds == ParseBounds(Get(n, "bounds", DefaultBoundsStr))
         IN  IF bounds[3] <= bounds[1] \/ bounds[4] <= bounds[2]
             THEN [ counter |-> counter, found |-> FALSE, element |-> << >> ]
             ELSE [ counter |-> counter, found |-> TRUE,
                    element |-> UIElement(c, n, bounds) ]

\* VisionModule._parse_node: the result is [counter, found, element]; the
\* counter is advanced before the bounds are looked at.
ParseNode(n, counter) ==
    IF ~IsMeaningfulElement(n)
    THEN [ counter |-> counter, found |-> FALSE, element |-> << >> ]
    ELSE LET c == counter + 1
             bounds == ParseBounds(Get(n, "bounds", DefaultBoundsStr))
         IN  IF bounds[3] <= bounds[1] \/ bounds[4] <= bounds[2]
             THEN [ counter |-> c, found |-> FALSE, element |-> << >> ]
             ELSE [ counter |-> c, found |-> TRUE,
                    element |-> UIElement(c, n, bounds) ]

(***************************************************************************)
(* A tree is [n, parent, node]: nodes 1..n, node 1 the root, parent[i] < i *)
(* and the children of a node in document order (increasing index).        *)
(***************************************************************************)
SingleNodeTree(k) ==
    [ n |-> 1, parent |-> << 0 >>, node |-> << k >> ]

Children(t, i) == { j \in 1..t.n : t.parent[j] = i }

\* VisionModule._traverse_tree over acc = [counter, elements]; `todo` is the
\* stack of nodes still to visit, first the next one (depth first, each
\* node before its children, children in document order).
SortedSeq(S) ==
    CHOOSE s \in [1..Cardinality(S) -> S] :
        \A a, b \in 1..Cardinality(S) : a < b => s[a] < s[b]

RECURSIVE TraverseTree(_, _, _)
TraverseTree(t, todo, acc) ==
    IF todo = << >>
    THEN acc
    ELSE LET i == Head(todo)
             r == ParseNode(t.node[i], acc.counter)
             els == IF r.found THEN Append(acc.elements, r.element)
                    ELSE acc.elements
         IN  CHOOSE out \in
                 { TraverseTree(t, rest, a) :
                     rest \in { SortedSeq(Children(t, i)) \o Tail(todo) },
                     a \in { [ counter |-> r.counter, elements |-> els ] } } : TRUE


(***************************************************************************)
(* What the environment does during one capture: `dump` is the outcome of  *)
(* device.dump_hierarchy() and ET.fromstring(), `window` the outcome of    *)
(* the dumpsys call and its two regular expressions, `fallback` the        *)
(* outcome of device.app_current().                                        *)
(***************************************************************************)
DumpOutcomes == { "ok", "unavailable", "unparsable" }
WindowOutcomes == { "focus", "focused_app", "nomatch", "raise" }
FallbackOutcomes == { "package", "nokey", "raise" }

CaptureEnvs ==
    [ dump : DumpOutcomes, window : WindowOutcomes, fallback : FallbackOutcomes ]

\* one representative per distinguishable outcome
CaptureEnvCases ==
    { e \in CaptureEnvs :
        /\ e.dump # "ok" => e.window = "focus"
        /\ (e.dump # "ok" \/ e.window # "raise") => e.fallback = "package" }

EnvOk == [ dump |-> "ok", window |-> "focus", fallback |-> "package" ]

P_Focus == "com.focus.owner"
P_FocusedApp == "com.focused.app"
P_Device == "com.device.current"

\* UIElement.to_dict
ToDict(el) ==
    [ uid |-> el.uid, type |-> el.element_type, text |-> el.text,
      content_desc |-> el.content_desc,
      resource_id |-> LastSegment(el.resource_id, "/"),
      bounds |-> el.bounds, clickable |-> el.clickable,
      scrollable |-> el.scrollable ]

MapToDict(s) == [ i \in 1..Len(s) |-> ToDict(s[i]) ]

Listed(el) ==
    el.clickable \/ el.scrollable \/ el.text # << >> \/ el.content_desc # << >>

\* VisionModule.get_ui_state: the result is [counter, elements, state], the
\* two fields of the module after the call and the dict it returns.
\* state.kind = "error" is the dict that has the key "error".
UiStateOf(parsed, env) ==
    LET ErrorState(msg) ==
            [ kind |-> "error", error |-> msg, package |-> "unknown",
              element_count |-> 0, elements |-> << >> ]
        OkState(pkg) ==
            [ kind |-> "ok", error |-> "", package |-> pkg,
              element_count |-> Len(parsed.elements),
              elements |-> MapToDict(SelectSeq(parsed.elements, Listed)) ]
    IN  IF env.dump # "ok"
        THEN [ counter |-> 0, elements |-> << >>, state |-> ErrorState(env.dump) ]
        ELSE IF env.window = "focus"
        THEN [ counter |-> parsed.counter, elements |-> parsed.elements,
               state |-> OkState(P_Focus) ]
        ELSE IF env.window = "focused_app"
        THEN [ counter |-> parsed.counter, elements |-> parsed.elements,
               state |-> OkState(P_FocusedApp) ]
        ELSE IF env.window = "nomatch"
        THEN [ counter |-> parsed.counter, elements |-> parsed.elements,
               state |-> OkState("unknown") ]
        ELSE IF env.fallback = "package"
        THEN [ counter |-> parsed.counter, elements |-> parsed.elements,
               state |-> OkState(P_Device) ]
        ELSE IF env.fallback = "nokey"
        THEN [ counter |-> parsed.counter, elements |-> parsed.elements,
               state |-> OkState("unknown") ]
        ELSE [ counter |-> parsed.counter, elements |-> parsed.elements,
               state |-> ErrorState("app_current") ]

\* get_ui_state that keeps the registry and the counter of the previous capture
GetUiState_merge(tree, env) ==
    CHOOSE out \in
        { UiStateOf(parsed, env) :
            parsed \in { TraverseTree(tree, << 1 >>,
                                      [ counter |-> uid_counter,
                                        elements |-> current_elements ]) } } : TRUE

GetUiState(tree, env) ==
    CHOOSE out \in
        { UiStateOf(parsed, env) :
            parsed \in { TraverseTree(tree, << 1 >>,
                                      [ counter |-> 0, elements |-> << >> ]) } } : TRUE

NoUiState ==
    [ kind |-> "none", error |-> "", package |-> "",
      element_count |-> 0, elements |-> << >> ]

(***************************************************************************)
(* VisionModule.get_ui_summary: the text is a sequence of lines.           *)
(***************************************************************************)
Line(k) ==
    [ k |-> k, package |-> "", error |-> "", uid |-> 0, form |-> "",
      label |-> << >>, clickable |-> FALSE, scrollable |-> FALSE ]

\* ElementLine in which the description is looked at before the text
ElementLine_desc_first(el) ==
    LET shown ==
            IF el.content_desc # << >>
            THEN [ form |-> "desc", label |-> el.content_desc ]
            ELSE IF el.text # << >> THEN [ form |-> "text", label |-> el.text ]
            ELSE IF el.resource_id # << >>
            THEN [ form |-> "resource", label |-> el.resource_id ]
            ELSE [ form |-> "type", label |-> el.type ]
    IN  [ Line("element") EXCEPT !.uid = el.uid, !.form = shown.form,
                                 !.label = shown.label,
                                 !.clickable = el.clickable,
                                 !.scrollable = el.scrollable ]

\* one line of get_ui_summary's loop (vision.py:234-258) for the dict el
ElementLine(el) ==
    LET shown ==
            IF el.text # << >> THEN [ form |-> "text", label |-> el.text ]
            ELSE IF el.content_desc # << >>
            THEN [ form |-> "desc", label |-> el.content_desc ]
            ELSE IF el.resource_id # << >>
            THEN [ form |-> "resource", label |-> el.resource_id ]
            ELSE [ form |-> "type", label |-> el.type ]
    IN  [ Line("element") EXCEPT !.uid = el.uid, !.form = shown.form,
                                 !.label = shown.label,
                                 !.clickable = el.clickable,
                                 !.scrollable = el.scrollable ]

\* the text returned for the dict `state`
GetUiSummary(state) ==
    IF state.kind = "error"
    THEN << [ Line("Error getting UI:") EXCEPT !.error = state.error ] >>
    ELSE << [ Line("Current App:") EXCEPT !.package = state.package ],
            Line(""), Line("Interactive Elements:") >>
         \o [ i \in 1..Len(state.elements) |-> ElementLine(state.elements[i]) ]

(***************************************************************************)
(* UIElement.get_center, VisionModule.get_element_by_uid and the executor  *)
(* operations the orchestration tools call.  An executor result is         *)
(* [ok, msg, cmds, raised]: cmds are the device calls made, raised says    *)
(* that an exception left the method.  `fault` says that the device        *)
(* command raises.                                                         *)
(***************************************************************************)
\* get_center that rounds the midpoint up
GetCenter_round_up(el) ==
    << (el.bounds[1] + el.bounds[3] + 1) \div 2,
       (el.bounds[2] + el.bounds[4] + 1) \div 2 >>

GetCenter(el) ==
    << (el.bounds[1] + el.bounds[3]) \div 2, (el.bounds[2] + el.bounds[4]) \div 2 >>

\* the matching elements in list order: the code returns the first, or None
ElementsByUid(elements, uid) == SelectSeq(elements, LAMBDA el : el.uid = uid)

\* ok: the device carried the command out (it did not raise)
DeviceCmd(cmd, x, y, ok) == [ cmd |-> cmd, x |-> x, y |-> y, ok |-> ok ]

\* _execute_click that falls back to the first element of the registry
ExecuteClick_first_element(elements, target_uid, fault) ==
    LET found == ElementsByUid(elements, target_uid)
        hit == IF found = << >> THEN elements ELSE found
    IN  IF hit = << >>
        THEN [ ok |-> FALSE, msg |-> "Element with UID not found", cmds |-> << >>,
               raised |-> FALSE ]
        ELSE LET c == GetCenter(hit[1])
             IN  IF fault
                 THEN [ ok |-> FALSE, msg |-> "Click failed",
                        cmds |-> << DeviceCmd("click", c[1], c[2], FALSE) >>,
                        raised |-> FALSE ]
                 ELSE [ ok |-> TRUE, msg |-> "Clicked on",
                        cmds |-> << DeviceCmd("click", c[1], c[2], TRUE) >>,
                        raised |-> FALSE ]

\* ActionExecutor._execute_click for a target_uid that is not None
ExecuteClick(elements, target_uid, fault) ==
    LET found == ElementsByUid(elements, target_uid)
    IN  IF found = << >>
        THEN [ ok |-> FALSE, msg |-> "Element with UID not found", cmds |-> << >>,
               raised |-> FALSE ]
        ELSE LET c == GetCenter(found[1])
             IN  IF fault
                 THEN [ ok |-> FALSE, msg |-> "Click failed",
                        cmds |-> << DeviceCmd("click", c[1], c[2], FALSE) >>,
                        raised |-> FALSE ]
                 ELSE [ ok |-> TRUE, msg |-> "Clicked on",
                        cmds |-> << DeviceCmd("click", c[1], c[2], TRUE) >>,
                        raised |-> FALSE ]

\* ActionExecutor._execute_back
ExecuteBack(fault) ==
    IF fault
    THEN [ ok |-> FALSE, msg |-> "Back failed",
           cmds |-> << DeviceCmd("press back", 0, 0, FALSE) >>, raised |-> FALSE ]
    ELSE [ ok |-> TRUE, msg |-> "Pressed back",
           cmds |-> << DeviceCmd("press back", 0, 0, TRUE) >>, raised |-> FALSE ]

(***************************************************************************)
(* The rest of ActionExecutor, as execute() drives it.  An Optional field  *)
(* of an AgentAction is << >> for None and << v >> for the value v; the    *)
(* empty string is "".  `fault` is the number of the device call, within   *)
(* the action, that raises (0: none does).                                 *)
(***************************************************************************)
Absent == << >>
Some(v) == << v >>
Falsy(opt) == opt = Absent \/ opt = Some("")

AgentAction(action, target_uid, text, app_package, direction, message, reasoning) ==
    [ action |-> action, target_uid |-> target_uid, text |-> text,
      app_package |-> app_package, direction |-> direction, message |-> message,
      reasoning |-> reasoning ]

\* a device call without coordinates
DeviceCall(cmd, ok) == DeviceCmd(cmd, 0, 0, ok)

DeviceSwipe(x1, y1, x2, y2, ok) ==
    [ cmd |-> "swipe", x |-> x1, y |-> y1, x2 |-> x2, y2 |-> y2, ok |-> ok ]

Result(ok, msg, cmds) == [ ok |-> ok, msg |-> msg, cmds |-> cmds, raised |-> FALSE ]

\* ActionExecutor._execute_click
ExecuteClickOptional(elements, target_uid, fault) ==
    IF target_uid = Absent
    THEN Result(FALSE, "No target_uid provided for click action", << >>)
    ELSE ExecuteClick(elements, target_uid[1], fault)

\* a device call that is given a string: the text to send, the package to start
DeviceArg(cmd, arg, ok) == [ cmd |-> cmd, arg |-> arg, ok |-> ok ]

\* _execute_type that goes on to send the text after clear_text raised
ExecuteType_send_after_failed_clear(text, fault) ==
    IF Falsy(text)
    THEN Result(FALSE, "No text provided for type action", << >>)
    ELSE IF fault = 1
    THEN Result(FALSE, "Type failed: <e>",
                << DeviceCall("clear_text", FALSE),
                   DeviceArg("send_keys", text[1], TRUE) >>)
    ELSE IF fault = 2
    THEN Result(FALSE, "Type failed: <e>",
                << DeviceCall("clear_text", TRUE),
                   DeviceArg("send_keys", text[1], FALSE) >>)
    ELSE Result(TRUE, "Typed: " \o text[1],
                << DeviceCall("clear_text", TRUE),
                   DeviceArg("send_keys", text[1], TRUE) >>)

\* ActionExecutor._execute_type; fault 1: device.clear_text raises, fault 2:
\* device.send_keys raises.  "<e>" stands for the text of the exception.
ExecuteType(text, fault) ==
    IF Falsy(text)
    THEN Result(FALSE, "No text provided for type action", << >>)
    ELSE IF fault = 1
    THEN Result(FALSE, "Type failed: <e>", << DeviceCall("clear_text", FALSE) >>)
    ELSE IF fault = 2
    THEN Result(FALSE, "Type failed: <e>",
                << DeviceCall("clear_text", TRUE),
                   DeviceArg("send_keys", text[1], FALSE) >>)
    ELSE Result(TRUE, "Typed: " \o text[1],
                << DeviceCall("clear_text", TRUE),
                   DeviceArg("send_keys", text[1], TRUE) >>)

\* _execute_scroll that swipes one-sixth of the height to each side of the centre
ExecuteScroll_sixth(direction, info, fault) ==
    LET dir == IF Falsy(direction) THEN "down" ELSE direction[1]
    IN  IF fault = 1
        THEN Result(FALSE, "Scroll failed", << DeviceCall("info", FALSE) >>)
        ELSE IF { "displayWidth", "displayHeight" } \ DOMAIN info # { }
        THEN Result(FALSE, "Scroll failed", << DeviceCall("info", TRUE) >>)
        ELSE LET width == info.displayWidth
                 height == info.displayHeight
                 center_x == width \div 2
                 center_y == height \div 2
                 scroll_distance == height \div 6
                 Swiped(x1, y1, x2, y2) ==
                     IF fault = 2
                     THEN Result(FALSE, "Scroll failed",
                                 << DeviceCall("info", TRUE),
                                    DeviceSwipe(x1, y1, x2, y2, FALSE) >>)
                     ELSE Result(TRUE, "Scrolled",
                                 << DeviceCall("info", TRUE),
                                    DeviceSwipe(x1, y1, x2, y2, TRUE) >>)
             IN  IF dir = "down"
                 THEN Swiped(center_x, center_y + scroll_distance,
                             center_x, center_y - scroll_distance)
                 ELSE IF dir = "up"
                 THEN Swiped(center_x, center_y - scroll_distance,
                             center_x, center_y + scroll_distance)
                 ELSE IF dir = "left"
                 THEN Swiped(center_x + scroll_distance, center_y,
                             center_x - scroll_distance, center_y)
                 ELSE IF dir = "right"
                 THEN Swiped(center_x - scroll_distance, center_y,
                             center_x + scroll_distance, center_y)
                 ELSE Result(FALSE, "Invalid scroll direction",
                             << DeviceCall("info", TRUE) >>)

\* ActionExecutor._execute_scroll; info is the dict device.info gives.  The
\* device is asked for info before the direction is looked at.
ExecuteScroll(direction, info, fault) ==
    LET dir == IF Falsy(direction) THEN "down" ELSE direction[1]
    IN  IF fault = 1
        THEN Result(FALSE, "Scroll failed", << DeviceCall("info", FALSE) >>)
        ELSE IF { "displayWidth", "displayHeight" } \ DOMAIN info # { }
        THEN Result(FALSE, "Scroll failed", << DeviceCall("info", TRUE) >>)
        ELSE LET width == info.displayWidth
                 height == info.displayHeight
                 center_x == width \div 2
                 center_y == height \div 2
                 scroll_distance == height \div 3
                 Swiped(x1, y1, x2, y2) ==
                     IF fault = 2
                     THEN Result(FALSE, "Scroll failed",
                                 << DeviceCall("info", TRUE),
                                    DeviceSwipe(x1, y1, x2, y2, FALSE) >>)
                     ELSE Result(TRUE, "Scrolled",
                                 << DeviceCall("info", TRUE),
                                    DeviceSwipe(x1, y1, x2, y2, TRUE) >>)
             IN  IF dir = "down"
                 THEN Swiped(center_x, center_y + scroll_distance,
                             center_x, center_y - scroll_distance)
                 ELSE IF dir = "up"
                 THEN Swiped(center_x, center_y - scroll_distance,
                             center_x, center_y + scroll_distance)
                 ELSE IF dir = "left"
                 THEN Swiped(center_x + scroll_distance, center_y,
                             center_x - scroll_distance, center_y)
                 ELSE IF dir = "right"
                 THEN Swiped(center_x - scroll_distance, center_y,
                             center_x + scroll_distance, center_y)
                 ELSE Result(FALSE, "Invalid scroll direction",
                             << DeviceCall("info", TRUE) >>)

\* AppLibrary.launch_app: starts the package on the device; TRUE when
\* device.app_start did not raise, FALSE when it did.  fault 1: device.app_start
\* raises, fault 2: launch_app itself raises, after the device call (its
\* print of the outcome fails)
LaunchApp(package_name, fault) ==
    [ success |-> fault = 0,
      raised  |-> fault = 2,
      cmds    |-> << DeviceArg("app_start", package_name, fault # 1) >> ]

\* _execute_open_app that reports success whatever launch_app returned
ExecuteOpenApp_ignore_result(package_name, fault) ==
    IF Falsy(package_name)
    THEN Result(FALSE, "No app_package provided for open_app action", << >>)
    ELSE LET l == LaunchApp(package_name[1], fault) IN
            IF l.raised
            THEN Result(FALSE, "Open app failed: <e>", l.cmds)
            ELSE Result(TRUE, "Opened " \o package_name[1], l.cmds)

\* ActionExecutor._execute_open_app
ExecuteOpenApp(package_name, fault) ==
    IF Falsy(package_name)
    THEN Result(FALSE, "No app_package provided for open_app action", << >>)
    ELSE LET l == LaunchApp(package_name[1], fault)
         IN  IF l.raised
             THEN Result(FALSE, "Open app failed: <e>", l.cmds)
             ELSE IF l.success
             THEN Result(TRUE, "Opened " \o package_name[1], l.cmds)
             ELSE Result(FALSE, "Failed to open " \o package_name[1], l.cmds)

\* _execute_home whose device call is outside the try
ExecuteHome_unguarded(fault) ==
    IF fault
    THEN [ ok |-> TRUE, msg |-> "", cmds |-> << DeviceCall("press home", FALSE) >>,
           raised |-> TRUE ]
    ELSE Result(TRUE, "Pressed home", << DeviceCall("press home", TRUE) >>)

\* ActionExecutor._execute_home
ExecuteHome(fault) ==
    IF fault
    THEN Result(FALSE, "Home failed", << DeviceCall("press home", FALSE) >>)
    ELSE Result(TRUE, "Pressed home", << DeviceCall("press home", TRUE) >>)

\* execute() whose done branch returns the message of the action, as the
\* respond branch does
Execute_done_echoes_message(action, elements, info, fault) ==
    IF action.action = "click"
    THEN ExecuteClickOptional(elements, action.target_uid, fault = 1)
    ELSE IF action.action = "type"
    THEN ExecuteType(action.text, fault)
    ELSE IF action.action = "scroll"
    THEN ExecuteScroll(action.direction, info, fault)
    ELSE IF action.action = "open_app"
    THEN ExecuteOpenApp(action.app_package, fault)
    ELSE IF action.action = "back"
    THEN ExecuteBack(fault = 1)
    ELSE IF action.action = "home"
    THEN ExecuteHome(fault = 1)
    ELSE IF action.action = "wait"
    THEN Result(TRUE, "Waited 2 seconds", << >>)
    ELSE IF action.action = "done"
    THEN Result(TRUE, IF Falsy(action.message) THEN "Task completed"
                      ELSE action.message[1], << >>)
    ELSE IF action.action = "respond"
    THEN Result(TRUE, IF Falsy(action.message) THEN "No message"
                      ELSE action.message[1], << >>)
    ELSE IF action.action = "ask"
    THEN Result(TRUE, IF Falsy(action.message) THEN "No question"
                      ELSE action.message[1], << >>)
    ELSE Result(FALSE, "Unknown action", << >>)

\* ActionExecutor.execute
Execute(action, elements, info, fault) ==
    IF action.action = "click"
    THEN ExecuteClickOptional(elements, action.target_uid, fault = 1)
    ELSE IF action.action = "type"
    THEN ExecuteType(action.text, fault)
    ELSE IF action.action = "scroll"
    THEN ExecuteScroll(action.direction, info, fault)
    ELSE IF action.action = "open_app"
    THEN ExecuteOpenApp(action.app_package, fault)
    ELSE IF action.action = "back"
    THEN ExecuteBack(fault = 1)
    ELSE IF action.action = "home"
    THEN ExecuteHome(fault = 1)
    ELSE IF action.action = "wait"
    THEN Result(TRUE, "Waited 2 seconds", << >>)
    ELSE IF action.action = "done"
    THEN Result(TRUE, "Task completed", << >>)
    ELSE IF action.action = "respond"
    THEN Result(TRUE, IF Falsy(action.message) THEN "No message"
                      ELSE action.message[1], << >>)
    ELSE IF action.action = "ask"
    THEN Result(TRUE, IF Falsy(action.message) THEN "No question"
                      ELSE action.message[1], << >>)
    ELSE Result(FALSE, "Unknown action", << >>)

\* the actions execute() is given
Bare(action) == AgentAction(action, Absent, Absent, Absent, Absent, Absent, << >>)

AgentActions ==
    { [ Bare("click") EXCEPT !.target_uid = t ] :
        t \in { Absent, Some(1), Some(2), Some(7) } }
    \cup { [ Bare("type") EXCEPT !.text = t ] : t \in { Absent, Some(""), Some("hi") } }
    \cup { [ Bare("scroll") EXCEPT !.direction = d ] :
             d \in { Absent, Some(""), Some("down"), Some("up"), Some("left"),
                     Some("right"), Some("diagonal") } }
    \cup { [ Bare("open_app") EXCEPT !.app_package = p ] :
             p \in { Absent, Some(""), Some("com.spotify.music") } }
    \cup { [ Bare(a) EXCEPT !.message = m ] :
             a \in { "done", "respond", "ask" },
             m \in { Absent, Some(""), Some("hello") } }
    \cup { Bare(a) : a \in { "back", "home", "wait", "done", "swipe" } }

\* what device.info may give: two screens, and a dict without the height
Displays ==
    { [ displayWidth |-> 1080, displayHeight |-> 1920 ],
      [ displayWidth |-> 7, displayHeight |-> 11 ],
      [ displayWidth |-> 1080 ] }

DeviceFaults == 0..2

NoAction == Bare("none")

NoResult == Result(TRUE, "", << >>)

\* the executor has not been used
ExecIdle ==
    /\ display = [ displayWidth |-> 1080, displayHeight |-> 1920 ]
    /\ exec_action = NoAction
    /\ exec_result = NoResult
    /\ exec_fault = 0
    /\ exec_count = 0

(***************************************************************************)
(* AgentBrain (brain.py): think() sends the conversation to the chat       *)
(* service and parses the reply into an AgentAction.  A text is            *)
(* [wrap, body, data]: body is what the text holds ("object": a JSON       *)
(* object, "list": a JSON list, "prose": no JSON, "": nothing), wrap is    *)
(* what surrounds it ("none", "fence": a markdown code block, "prose":     *)
(* words before and after), data the members of the JSON object.  Strings  *)
(* that are searched are sequences of words.                               *)
(***************************************************************************)
Text(wrap, body, data) == [ wrap |-> wrap, body |-> body, data |-> data ]

NoData == [ action |-> Absent, target_uid |-> Absent, message |-> Absent,
            reasoning |-> Absent ]

Turn(role, content) == [ role |-> role, content |-> content ]

\* the correction think() adds after a reply that did not parse
Correction ==
    Turn("user", Text("none", "Please respond with ONLY valid JSON. No other text.",
                      NoData))

\* dict.get(key, default) on an Optional member
GetOr(opt, default) == IF opt = Absent THEN default ELSE opt[1]

\* AgentBrain._parse_response: [raised, action]
ParseResponse(response) ==
    IF response.body = ""
    THEN [ raised |-> FALSE,
           action |-> AgentAction("respond", Absent, Absent, Absent, Absent,
                          Some("I received an empty response. Could you please try again?"),
                          << "LLM returned empty response" >>) ]
    ELSE LET \* the lines between the fences, when the text starts with a fence
             unfenced == IF response.wrap = "fence" THEN "none" ELSE response.wrap
             \* from the first "{" to the last "}", when the text does not start with "{"
             extracted == IF unfenced = "prose" /\ response.body = "object"
                          THEN "none" ELSE unfenced
             loads == IF extracted = "none" /\ response.body \in { "object", "list" }
                      THEN response.body ELSE "JSONDecodeError"
         IN  IF loads = "JSONDecodeError"
             THEN [ raised |-> FALSE,
                    action |-> AgentAction("wait", Absent, Absent, Absent, Absent, Absent,
                                   << "LLM returned non-JSON response,", "retrying" >>) ]
             ELSE IF loads = "list"
             THEN [ raised |-> TRUE, action |-> Bare("none") ]
             ELSE [ raised |-> FALSE,
                    action |-> AgentAction(GetOr(response.data.action, "done"),
                                   response.data.target_uid, Absent, Absent, Absent,
                                   response.data.message,
                                   GetOr(response.data.reasoning, << >>)) ]

\* the AgentAction think() returns when the call or the parsing raised
LlmError ==
    AgentAction("done", Absent, Absent, Absent, Absent, Absent,
                << "Error communicating with LLM" >>)

\* AgentBrain.think: [history, action], the conversation after the call and
\* the AgentAction returned.  reply is what client.chat.completions.create
\* did: it raised, or gave a text
Think(history, reply) ==
    LET started == IF history = << >>
                   THEN << Turn("system", Text("none", "SYSTEM_PROMPT", NoData)) >>
                   ELSE history
        asked == Append(started, Turn("user", Text("none", "user_message", NoData)))
    IN  IF reply.raises
        THEN [ history |-> asked, action |-> LlmError ]
        ELSE LET answered == Append(asked, Turn("assistant", reply.text))
                 parsed == ParseResponse(reply.text)
             IN  IF parsed.raised
                 THEN [ history |-> answered, action |-> LlmError ]
                 ELSE IF /\ parsed.action.action = "wait"
                         /\ IsSubstring(<< "retrying" >>, parsed.action.reasoning)
                 THEN [ history |-> Append(answered, Correction),
                        action |-> parsed.action ]
                 ELSE [ history |-> answered, action |-> parsed.action ]

\* what the chat service may do on one call
BrainReplies ==
    LET click == [ NoData EXCEPT !.action = Some("click"), !.target_uid = Some(1),
                                 !.reasoning = Some(<< "Clicking", "login" >>) ]
        respond == [ NoData EXCEPT !.action = Some("respond"),
                                   !.message = Some("hello") ]
        no_action == [ NoData EXCEPT !.reasoning = Some(<< "Booking", "confirmed" >>) ]
        wait == [ NoData EXCEPT !.action = Some("wait"),
                                !.reasoning = Some(<< "page", "loading,", "retrying" >>) ]
    IN  { [ raises |-> TRUE, text |-> Text("none", "", NoData) ] }
        \cup { [ raises |-> FALSE, text |-> t ] :
                 t \in { Text("none", "", NoData),
                         Text("none", "prose", NoData),
                         Text("none", "list", NoData),
                         Text("none", "object", click),
                         Text("fence", "object", respond),
                         Text("prose", "object", no_action),
                         Text("none", "object", wait) } }

\* the brain has not been used
BrainIdle ==
    /\ conversation_history = << >>
    /\ brain_replies = << >>
    /\ brain_action = NoAction

(***************************************************************************)
(* Messages of the conversation log.  tool_calls is the list of            *)
(* invocations of an assistant message, each [name, args, id]; ctx is the  *)
(* set of parts of a context block (empty for every other message) and     *)
(* context what the parts say.                                             *)
(***************************************************************************)
None == "<None>"
Truthy(x) == x # None /\ x # ""

Msg(type, content) ==
    [ type |-> type, content |-> content, tool_calls |-> << >>,
      tool_call_id |-> 0, ctx |-> {},
      context |-> [ action |-> None, result |-> None, app |-> "",
                    screen |-> [ lines |-> << >>, cut |-> 0 ] ] ]

SystemMessage == Msg("system", "SYSTEM_PROMPT")
HumanMessage(content) == Msg("human", content)
AIMessage(content, calls) == [ Msg("ai", content) EXCEPT !.tool_calls = calls ]
ToolMessage(content, id) == [ Msg("tool", content) EXCEPT !.tool_call_id = id ]

\* the names of TOOLS (graph_agent.py:162-173)
TOOLS ==
    { "click_element", "type_text", "scroll_screen", "open_app", "press_back",
      "press_home", "wait_for_screen", "get_screen_state",
      "search_installed_apps", "list_all_apps" }

\* args of an invocation: `valid` is whether they pass the tool's schema
Args(uid) == [ valid |-> TRUE, uid |-> uid ]
BadArgs == [ valid |-> FALSE, uid |-> 0 ]
Call(name, args) == [ name |-> name, args |-> args ]

\* the lists of invocations an oracle reply may carry
R_Back == << Call("press_back", Args(0)) >>
R_Click == << Call("click_element", Args(1)) >>
R_ClickAbsent == << Call("click_element", Args(7)) >>
R_ClickBadArgs == << Call("click_element", BadArgs) >>
R_Bogus == << Call("swipe_up", Args(0)) >>
R_LookThenClick == << Call("get_screen_state", Args(0)), Call("click_element", Args(1)) >>
R_AbsentThenBack == << Call("click_element", Args(7)), Call("press_back", Args(0)) >>

ToolReplies ==
    { R_Back, R_Click, R_ClickAbsent, R_ClickBadArgs, R_Bogus,
      R_LookThenClick, R_AbsentThenBack }

\* what one oracle call may give: invocations (with or without words to go
\* with them), free text, or a failure
OracleOutcomes ==
    { [ kind |-> "tools", calls |-> r, content |-> "" ] : r \in ToolReplies }
    \cup { [ kind |-> "tools", calls |-> R_Back, content |-> "on it" ],
           [ kind |-> "text", calls |-> << >>, content |-> "text reply" ],
           [ kind |-> "fail", calls |-> << >>, content |-> "" ] }

\* the invocation identifiers the oracle gives: fresh for every invocation
CallId(step, i) == step * 10 + i

WithIds(calls, step) ==
    [ i \in 1..Len(calls) |->
        [ name |-> calls[i].name, args |-> calls[i].args, id |-> CallId(step, i) ] ]

(***************************************************************************)
(* A node's return value: the keys it sets and their values.  The graph    *)
(* applies it to AgentState: messages are added, other keys overwritten.   *)
(***************************************************************************)
NoUpdate ==
    [ keys |-> {}, messages |-> << >>, current_screen |-> << >>,
      current_app |-> "", step_count |-> 0, last_action |-> None,
      last_result |-> None, status |-> "", pending_confirmation |-> << >> ]

Pick(u, key, old) == IF key \in u.keys THEN u[key] ELSE old

\* ApplyUpdate without the reducer of messages: the update replaces the log
ApplyUpdate_overwrite(u) ==
    /\ messages' = IF "messages" \in u.keys THEN u.messages ELSE messages
    /\ current_screen' = Pick(u, "current_screen", current_screen)
    /\ current_app' = Pick(u, "current_app", current_app)
    /\ step_count' = Pick(u, "step_count", step_count)
    /\ last_action' = Pick(u, "last_action", last_action)
    /\ last_result' = Pick(u, "last_result", last_result)
    /\ status' = Pick(u, "status", status)
    /\ pending_confirmation' = Pick(u, "pending_confirmation", pending_confirmation)

\* AgentState's reducers (graph_agent.py:35-53)
ApplyUpdate(u) ==
    /\ messages' = IF "messages" \in u.keys THEN messages \o u.messages ELSE messages
    /\ current_screen' = Pick(u, "current_screen", current_screen)
    /\ current_app' = Pick(u, "current_app", current_app)
    /\ step_count' = Pick(u, "step_count", step_count)
    /\ last_action' = Pick(u, "last_action", last_action)
    /\ last_result' = Pick(u, "last_result", last_result)
    /\ status' = Pick(u, "status", status)
    /\ pending_confirmation' = Pick(u, "pending_confirmation", pending_confirmation)

\* PerceiveUpdate that treats a failed capture as fatal
PerceiveUpdate_fatal(count, screen) ==
    LET base == [ NoUpdate EXCEPT !.keys = { "step_count", "current_screen" },
                                  !.step_count = count + 1,
                                  !.current_screen = screen ]
    IN  IF screen # << >> /\ screen[1].k = "Current App:"
        THEN [ base EXCEPT !.keys = @ \cup { "current_app" },
                           !.current_app = screen[1].package ]
        ELSE [ base EXCEPT !.keys = @ \cup { "status" }, !.status = "error" ]

\* perceive (graph_agent.py:259-286), given the summary the capture returned
PerceiveUpdate(count, screen) ==
    LET base == [ NoUpdate EXCEPT !.keys = { "step_count", "current_screen" },
                                  !.step_count = count + 1,
                                  !.current_screen = screen ]
    IN  IF screen # << >> /\ screen[1].k = "Current App:"
        THEN [ base EXCEPT !.keys = @ \cup { "current_app" },
                           !.current_app = screen[1].package ]
        ELSE base

\* len() of the strings of the model; LongWord stands for a text of 1600
\* characters
LongWord == "lorem ipsum ..."

StrLen(s) ==
    CASE s = LongWord -> 1600
      [] s = "Login" -> 5
      [] s = "logo" -> 4
      [] s = "Off" -> 3
      [] s = "content" -> 7
      [] s = "Button" -> 6
      [] s = "View" -> 4
      [] s = "FrameLayout" -> 11
      [] s = "unknown" -> 7
      [] s = "unavailable" -> 11
      [] s = "unparsable" -> 10
      [] s = "app_current" -> 11
      [] s = P_Focus -> 15
      [] s = P_FocusedApp -> 15
      [] s = P_Device -> 18
      [] OTHER -> 1

\* len() of the summary text `screen`, its lines joined by newlines
SummaryLen(screen) ==
    LET Chars(line) ==
            IF line.k = "Current App:" THEN 13 + StrLen(line.package)
            ELSE IF line.k = "Error getting UI:" THEN 18 + StrLen(line.error)
            ELSE IF line.k = "Interactive Elements:" THEN 21
            ELSE IF line.k = "element"
            THEN 2 + 3 + 1
                 + (IF line.form = "type" THEN 0 ELSE 2)
                 + (IF line.label = << >> THEN 0 ELSE StrLen(line.label[Len(line.label)]))
                 + (IF line.clickable THEN 12 ELSE 0)
                 + (IF line.scrollable THEN 13 ELSE 0)
            ELSE 0
        Cum[i \in 0..Len(screen)] ==
            IF i = 0 THEN 0
            ELSE Cum[i - 1] + Chars(screen[i]) + (IF i > 1 THEN 1 ELSE 0)
    IN  Cum

\* screen[:limit] if len(screen) > limit else screen: the whole lines kept,
\* and the number of characters kept after them
Truncate(screen, limit) ==
    LET n == Len(screen)
        cum == SummaryLen(screen)
    IN  IF cum[n] <= limit
        THEN [ lines |-> screen, cut |-> 0 ]
        ELSE LET m == CHOOSE i \in 0..n : cum[i] <= limit /\ cum[i + 1] > limit
             IN  [ lines |-> SubSeq(screen, 1, m), cut |-> limit - cum[m] ]

\* BuildRequest that adds the context block at the first step too
BuildRequest_always_context(msgs, count, action, result, app, screen, opened) ==
    LET listed == IF msgs = << >> \/ msgs[1].type # "system"
                  THEN << SystemMessage >> \o msgs
                  ELSE msgs
        context_parts ==
            (IF Truthy(action) /\ Truthy(result)
             THEN { "previous" } \cup (IF opened THEN { "status" } ELSE {})
             ELSE {})
            \cup (IF app # "" THEN { "app" } ELSE {})
            \cup (IF screen # << >> THEN { "screen" } ELSE {})
    IN  IF count > 0 /\ context_parts # {}
        THEN Append(listed,
                    [ HumanMessage("context") EXCEPT
                        !.ctx = context_parts,
                        !.context =
                            [ action |-> IF "previous" \in context_parts
                                         THEN action ELSE None,
                              result |-> IF "previous" \in context_parts
                                         THEN result ELSE None,
                              app |-> app,
                              screen |-> Truncate(screen, SCREEN_LIMIT) ] ])
        ELSE listed

\* reason, first half (graph_agent.py:293-326): the message list of the call.
\* opened says that "Opened" is in last_result and "open" in the goal
BuildRequest(msgs, count, action, result, app, screen, opened) ==
    LET listed == IF msgs = << >> \/ msgs[1].type # "system"
                  THEN << SystemMessage >> \o msgs
                  ELSE msgs
        context_parts ==
            (IF Truthy(action) /\ Truthy(result)
             THEN { "previous" } \cup (IF opened THEN { "status" } ELSE {})
             ELSE {})
            \cup (IF app # "" THEN { "app" } ELSE {})
            \cup (IF screen # << >> THEN { "screen" } ELSE {})
    IN  IF count > 1 /\ context_parts # {}
        THEN Append(listed,
                    [ HumanMessage("context") EXCEPT
                        !.ctx = context_parts,
                        !.context =
                            [ action |-> IF "previous" \in context_parts
                                         THEN action ELSE None,
                              result |-> IF "previous" \in context_parts
                                         THEN result ELSE None,
                              app |-> app,
                              screen |-> Truncate(screen, SCREEN_LIMIT) ] ])
        ELSE listed

\* ReasonUpdate whose failure branch forgets the status
ReasonUpdate_no_status(o, count) ==
    IF o.kind = "fail"
    THEN [ NoUpdate EXCEPT !.keys = { "messages" },
                           !.messages = << AIMessage("I encountered an error", << >>) >> ]
    ELSE IF o.kind = "text"
    THEN [ NoUpdate EXCEPT !.keys = { "messages" },
                           !.messages = << AIMessage(o.content, << >>) >> ]
    ELSE [ NoUpdate EXCEPT !.keys = { "messages" },
                           !.messages = << AIMessage(o.content, WithIds(o.calls, count)) >> ]

\* reason, second half (graph_agent.py:328-340): the oracle's answer
ReasonUpdate(o, count) ==
    IF o.kind = "fail"
    THEN [ NoUpdate EXCEPT !.keys = { "messages", "status" },
                           !.messages = << AIMessage("I encountered an error", << >>) >>,
                           !.status = "error" ]
    ELSE IF o.kind = "text"
    THEN [ NoUpdate EXCEPT !.keys = { "messages" },
                           !.messages = << AIMessage(o.content, << >>) >> ]
    ELSE [ NoUpdate EXCEPT !.keys = { "messages" },
                           !.messages = << AIMessage(o.content, WithIds(o.calls, count)) >> ]

\* human_review (graph_agent.py:392-404)
HumanReviewUpdate(msgs) ==
    IF msgs = << >>
    THEN NoUpdate
    ELSE LET last_message == msgs[Len(msgs)]
         IN  IF last_message.tool_calls # << >>
             THEN [ NoUpdate EXCEPT !.keys = { "pending_confirmation", "status" },
                                    !.pending_confirmation = << last_message.tool_calls[1] >>,
                                    !.status = "needs_input" ]
             ELSE NoUpdate

(***************************************************************************)
(* act (graph_agent.py:343-389).  RunTools is the loop over the            *)
(* invocations; acc carries the vision module's fields, the tool results,  *)
(* the dispatched identifiers and the device commands.                     *)
(***************************************************************************)
\* RunTool that does nothing once an earlier invocation of the reply has failed
RunTool_skip_after_failure(call, acc, fault) ==
    IF \E i \in 1..Len(acc.results) :
          acc.results[i].content \in { "Unknown tool", "Error executing",
                                       "Element with UID not found", "Click failed",
                                       "Back failed" }
    THEN acc
    ELSE
    IF call.name \notin TOOLS
    THEN [ acc EXCEPT !.results = Append(@, ToolMessage("Unknown tool", call.id)) ]
    ELSE IF ~call.args.valid
    THEN [ acc EXCEPT !.results = Append(@, ToolMessage("Error executing", call.id)),
                      !.invoked = Append(@, call.id) ]
    ELSE IF call.name = "click_element"
    THEN LET r == ExecuteClick(acc.elements, call.args.uid, fault)
         IN  [ acc EXCEPT !.results = Append(@, ToolMessage(r.msg, call.id)),
                          !.invoked = Append(@, call.id),
                          !.cmds = @ \o r.cmds ]
    ELSE IF call.name = "get_screen_state"
    THEN LET r == GetUiState(acc.tree, EnvOk)
             text == GetUiSummary(r.state)
         IN  [ acc EXCEPT !.results = Append(@, ToolMessage(text[1].k, call.id)),
                          !.invoked = Append(@, call.id),
                          !.elements = r.elements, !.counter = r.counter,
                          !.state = r.state, !.captures = @ + 1 ]
    ELSE LET r == ExecuteBack(fault)
         IN  [ acc EXCEPT !.results = Append(@, ToolMessage(r.msg, call.id)),
                          !.invoked = Append(@, call.id),
                          !.cmds = @ \o r.cmds ]

\* one tool_map[tool_name].invoke(tool_args), or the unknown-tool branch
RunTool(call, acc, fault) ==
    IF call.name \notin TOOLS
    THEN [ acc EXCEPT !.results = Append(@, ToolMessage("Unknown tool", call.id)) ]
    ELSE IF ~call.args.valid
    THEN [ acc EXCEPT !.results = Append(@, ToolMessage("Error executing", call.id)),
                      !.invoked = Append(@, call.id) ]
    ELSE IF call.name = "click_element"
    THEN LET r == ExecuteClick(acc.elements, call.args.uid, fault)
         IN  [ acc EXCEPT !.results = Append(@, ToolMessage(r.msg, call.id)),
                          !.invoked = Append(@, call.id),
                          !.cmds = @ \o r.cmds ]
    ELSE IF call.name = "get_screen_state"
    THEN LET r == GetUiState(acc.tree, EnvOk)
             text == GetUiSummary(r.state)
         IN  [ acc EXCEPT !.results = Append(@, ToolMessage(text[1].k, call.id)),
                          !.invoked = Append(@, call.id),
                          !.elements = r.elements, !.counter = r.counter,
                          !.state = r.state, !.captures = @ + 1 ]
    ELSE LET r == ExecuteBack(fault)
         IN  [ acc EXCEPT !.results = Append(@, ToolMessage(r.msg, call.id)),
                          !.invoked = Append(@, call.id),
                          !.cmds = @ \o r.cmds ]

RECURSIVE RunTools(_, _, _)
RunTools(calls, acc, fault) ==
    IF calls = << >>
    THEN acc
    ELSE CHOOSE out \in { RunTools(Tail(calls), a, fault) :
                             a \in { RunTool(Head(calls), acc, fault) } } : TRUE

\* ActUpdate that leaves the status as it found it
ActUpdate_keeps_status(msgs, tool_results) ==
    IF msgs = << >>
    THEN [ NoUpdate EXCEPT !.keys = { "status", "last_result" },
                           !.status = "error",
                           !.last_result = "No messages to process" ]
    ELSE LET last_message == msgs[Len(msgs)]
         IN  IF last_message.tool_calls = << >>
             THEN [ NoUpdate EXCEPT !.keys = { "status" }, !.status = "completed" ]
             ELSE [ NoUpdate EXCEPT
                      !.keys = { "messages", "last_action", "last_result" },
                      !.messages = tool_results,
                      !.last_action = last_message.tool_calls[1].name,
                      !.last_result = IF tool_results # << >>
                                      THEN tool_results[Len(tool_results)].content
                                      ELSE "" ]

\* ActUpdate that reports completed after executing the invocations
ActUpdate_completed(msgs, tool_results) ==
    IF msgs = << >>
    THEN [ NoUpdate EXCEPT !.keys = { "status", "last_result" },
                           !.status = "error",
                           !.last_result = "No messages to process" ]
    ELSE LET last_message == msgs[Len(msgs)]
         IN  IF last_message.tool_calls = << >>
             THEN [ NoUpdate EXCEPT !.keys = { "status" }, !.status = "completed" ]
             ELSE [ NoUpdate EXCEPT
                      !.keys = { "messages", "last_action", "last_result", "status" },
                      !.messages = tool_results,
                      !.last_action = last_message.tool_calls[1].name,
                      !.last_result = IF tool_results # << >>
                                      THEN tool_results[Len(tool_results)].content
                                      ELSE "",
                      !.status = "completed" ]

\* ActUpdate that turns a failed last tool result into status error
ActUpdate_error_on_failure(msgs, tool_results) ==
    IF msgs = << >>
    THEN [ NoUpdate EXCEPT !.keys = { "status", "last_result" },
                           !.status = "error",
                           !.last_result = "No messages to process" ]
    ELSE LET last_message == msgs[Len(msgs)]
         IN  IF last_message.tool_calls = << >>
             THEN [ NoUpdate EXCEPT !.keys = { "status" }, !.status = "completed" ]
             ELSE [ NoUpdate EXCEPT
                      !.keys = { "messages", "last_action", "last_result", "status" },
                      !.messages = tool_results,
                      !.last_action = last_message.tool_calls[1].name,
                      !.last_result = IF tool_results # << >>
                                      THEN tool_results[Len(tool_results)].content
                                      ELSE "",
                      !.status =
                          IF /\ tool_results # << >>
                             /\ tool_results[Len(tool_results)].content
                                  \in { "Unknown tool", "Error executing",
                                        "Element with UID not found",
                                        "Click failed", "Back failed" }
                          THEN "error"
                          ELSE "running" ]

\* the value act returns, given the tool results of the loop
ActUpdate(msgs, tool_results) ==
    IF msgs = << >>
    THEN [ NoUpdate EXCEPT !.keys = { "status", "last_result" },
                           !.status = "error",
                           !.last_result = "No messages to process" ]
    ELSE LET last_message == msgs[Len(msgs)]
         IN  IF last_message.tool_calls = << >>
             THEN [ NoUpdate EXCEPT !.keys = { "status" }, !.status = "completed" ]
             ELSE [ NoUpdate EXCEPT
                      !.keys = { "messages", "last_action", "last_result", "status" },
                      !.messages = tool_results,
                      !.last_action = last_message.tool_calls[1].name,
                      !.last_result = IF tool_results # << >>
                                      THEN tool_results[Len(tool_results)].content
                                      ELSE "",
                      !.status = "running" ]

(***************************************************************************)
(* Routing (graph_agent.py:407-446) and the edges (graph_agent.py:449-496) *)
(***************************************************************************)
\* should_continue that sends every assistant message to act
should_continue_always_act(st, msgs, count) ==
    IF st \in { "completed", "error" } THEN "end"
    ELSE IF st = "needs_input" THEN "wait_for_input"
    ELSE IF msgs = << >> THEN "end"
    ELSE LET last_message == msgs[Len(msgs)]
         IN  IF last_message.type = "ai"
             THEN "act"
             ELSE IF last_message.type = "tool"
             THEN IF count >= MAX_STEPS THEN "end" ELSE "perceive"
             ELSE "end"

should_continue(st, msgs, count) ==
    IF st \in { "completed", "error" } THEN "end"
    ELSE IF st = "needs_input" THEN "wait_for_input"
    ELSE IF msgs = << >> THEN "end"
    ELSE LET last_message == msgs[Len(msgs)]
         IN  IF last_message.type = "ai"
             THEN IF last_message.tool_calls # << >> THEN "act" ELSE "end"
             ELSE IF last_message.type = "tool"
             THEN IF count >= MAX_STEPS THEN "end" ELSE "perceive"
             ELSE "end"

\* after_act whose ceiling test is off by one
after_act_late(st, count) ==
    IF st = "completed" THEN "end"
    ELSE IF count > MAX_STEPS THEN "end"
    ELSE "perceive"

after_act(st, count) ==
    IF st = "completed" THEN "end"
    ELSE IF count >= MAX_STEPS THEN "end"
    ELSE "perceive"

\* the conditional edges out of reason; a route without an edge has no target
ReasonEdge(route, confirm) ==
    IF route = "act" THEN (IF confirm THEN "human_review" ELSE "act")
    ELSE IF route = "end" THEN "END"
    ELSE IF route = "perceive" THEN "perceive"
    ELSE "NO_EDGE"

\* the conditional edges out of act
ActEdge(route) == IF route = "perceive" THEN "perceive" ELSE "END"

(***************************************************************************)
(* run_task's loop body for one streamed update (graph_agent.py:616-656):  *)
(* `yields` is the index enumerate() gives the update.                     *)
(***************************************************************************)
LoopExit(u) ==
    IF consumer # "run_task" THEN "no"
    ELSE IF "status" \in u.keys /\ u.status = "completed" THEN "completed"
    ELSE IF yields > SAFETY_LIMIT THEN "safety"
    ELSE "no"

\* a node has returned u: the state is updated and the update is streamed
Emit(u) ==
    /\ ApplyUpdate(u)
    /\ yields' = yields + 1
    /\ final_state' = IF consumer = "run_task" THEN u ELSE final_state
    /\ stopped' = LoopExit(u)
    /\ UNCHANGED << confirm_actions, consumer, execVars, brainVars >>

Running(n) == node = n /\ stopped = "no"

\* run_task's return value (graph_agent.py:658-666): the content of the last
\* assistant message with content among the messages of final_state
RECURSIVE LastContent(_)
LastContent(msgs) ==
    IF msgs = << >> THEN "Task completed"
    ELSE IF msgs[Len(msgs)].type = "ai" /\ msgs[Len(msgs)].content # ""
    THEN msgs[Len(msgs)].content
    ELSE LastContent(SubSeq(msgs, 1, Len(msgs) - 1))

FinalResponse(fs) ==
    IF fs.keys = {} THEN "Task completed"
    ELSE LastContent(Pick(fs, "messages", << >>))

\* the captures Perceive meets: a good one, or the tree cannot be dumped
PerceiveEnvs == { EnvOk, [ dump |-> "unavailable", window |-> "focus", fallback |-> "package" ] }

Perceive ==
    /\ Running("perceive")
    /\ \E env \in PerceiveEnvs :
          /\ env # EnvOk => odd_used < MaxOddSteps
          /\ odd_used' = IF env # EnvOk THEN odd_used + 1 ELSE odd_used
          /\ \E r \in { GetUiState(device_tree, env) } :
                /\ current_elements' = r.elements
                /\ uid_counter' = r.counter
                /\ ui_state' = r.state
                /\ capture_env' = env
                /\ \E u \in { PerceiveUpdate(step_count, GetUiSummary(r.state)) } :
                      Emit(u)
    /\ captures' = captures + 1
    /\ act_odd' = FALSE
    /\ runs' = runs
    /\ node' = "reason"
    /\ UNCHANGED << device_tree, seenVars >>

Reason ==
    /\ Running("reason")
    /\ request' = BuildRequest(messages, step_count, last_action, last_result,
                               current_app, current_screen, FALSE)
    /\ \E o \in OracleOutcomes :
          LET odd == o.kind = "tools" /\ (o.calls # R_Back \/ o.content # "")
          IN  /\ odd => odd_used < MaxOddSteps
              /\ odd_used' = IF odd THEN odd_used + 1 ELSE odd_used
              /\ act_odd' = odd
              /\ runs' = runs
              /\ oracle_out' = o.kind
              /\ oracle_calls' = oracle_calls + 1
              /\ \E u \in { ReasonUpdate(o, step_count) } : Emit(u)
    /\ node' = ReasonEdge(should_continue(status', messages', step_count'),
                          confirm_actions)
    /\ UNCHANGED << visionVars, invoked, device_cmds >>

HumanReview ==
    /\ Running("human_review")
    /\ \E u \in { HumanReviewUpdate(messages) } : Emit(u)
    /\ node' = "act"
    /\ UNCHANGED << visionVars, seenVars, boundVars >>

\* the replies for which a failing device is modelled
Faultable == { R_Back, R_Click }

\* the invocations of the first reply of the log that has any, not of the
\* last message
Calls_of_first_reply(msgs) ==
    LET replies == SelectSeq(msgs, LAMBDA m : m.tool_calls # << >>)
    IN  IF replies = << >> THEN << >> ELSE replies[1].tool_calls

Calls(msgs) == IF msgs = << >> THEN << >> ELSE msgs[Len(msgs)].tool_calls

Act ==
    /\ Running("act")
    /\ \E fault \in BOOLEAN :
          LET calls == Calls(messages)
              plain == [ i \in 1..Len(calls) |-> Call(calls[i].name, calls[i].args) ]
              charge == fault /\ ~act_odd
          IN  /\ fault => plain \in Faultable
              /\ charge => odd_used < MaxOddSteps
              /\ odd_used' = IF charge THEN odd_used + 1 ELSE odd_used
              /\ act_odd' = (act_odd \/ fault)
              /\ runs' = runs
              /\ \E before \in { [ tree |-> device_tree,
                                      elements |-> current_elements,
                                      counter |-> uid_counter,
                                      state |-> ui_state,
                                      captures |-> captures,
                                      results |-> << >>,
                                      invoked |-> invoked,
                                      cmds |-> device_cmds ] } :
                 \E acc \in { RunTools(calls, before, fault) } :
                    /\ current_elements' = acc.elements
                    /\ uid_counter' = acc.counter
                    /\ ui_state' = acc.state
                    /\ captures' = acc.captures
                    /\ capture_env' = IF acc.captures = captures THEN capture_env
                                      ELSE EnvOk
                    /\ invoked' = acc.invoked
                    /\ device_cmds' = acc.cmds
                    /\ \E u \in { ActUpdate(messages, acc.results) } : Emit(u)
    /\ node' = ActEdge(after_act(status', step_count'))
    /\ UNCHANGED << device_tree, request, oracle_out, oracle_calls >>

(***************************************************************************)
(* A run: run_task's initial_state (graph_agent.py:598-610) entering the   *)
(* graph at its entry point, right after connect().                        *)
(***************************************************************************)
StartOfRun(c) ==
    /\ device_tree = SingleNodeTree(N_Login)
    /\ current_elements = << >>
    /\ uid_counter = 0
    /\ ui_state = NoUiState
    /\ captures = 0
    /\ capture_env = EnvOk
    /\ messages = << HumanMessage("goal") >>
    /\ current_screen = << >>
    /\ current_app = ""
    /\ step_count = 0
    /\ last_action = None
    /\ last_result = None
    /\ status = "running"
    /\ pending_confirmation = << >>
    /\ confirm_actions \in BOOLEAN
    /\ consumer = c
    /\ node = "perceive"
    /\ yields = 0
    /\ stopped = "no"
    /\ final_state = NoUpdate
    /\ request = << >>
    /\ oracle_out = "none"
    /\ oracle_calls = 0
    /\ invoked = << >>
    /\ device_cmds = << >>
    /\ odd_used = 0
    /\ act_odd = FALSE
    /\ runs = 1
    /\ ExecIdle
    /\ BrainIdle

Init == StartOfRun("run_task")

GraphInit == StartOfRun("drain")

Next == Perceive \/ Reason \/ HumanReview \/ Act

\* the program: the graph streamed by run_task
Spec == Init /\ [][Next]_vars

\* the graph streamed to its end; the runtime always runs the next node
GraphSpec == GraphInit /\ [][Next]_vars /\ WF_vars(Next)

(***************************************************************************)
(* A session: interactive_mode (graph_agent.py:699-731) calls run_task     *)
(* again and again with the one thread_id "interactive".  The graph was    *)
(* compiled with a MemorySaver (graph_agent.py:575-577), so stream() finds *)
(* the state the thread's last run left and applies initial_state to it    *)
(* as an update, through AgentState's reducers, before entering the graph  *)
(* at its entry point.                                                     *)
(***************************************************************************)
\* run_task's initial_state (graph_agent.py:598-610)
InitialState ==
    [ NoUpdate EXCEPT
        !.keys = { "messages", "current_screen", "current_app", "step_count",
                   "last_action", "last_result", "status", "pending_confirmation" },
        !.messages = << HumanMessage("goal") >>,
        !.status = "running" ]

\* the next run_task call of the session, made when the last one has returned
NewRun ==
    /\ consumer = "run_task"
    /\ node = "END" \/ stopped # "no"
    /\ runs < MaxRuns /\ step_count <= MaxEarlierSteps
    /\ runs' = runs + 1
    /\ \E u \in { InitialState } : ApplyUpdate(u)
    /\ node' = "perceive"
    /\ yields' = 0
    /\ stopped' = "no"
    /\ final_state' = NoUpdate
    /\ UNCHANGED << visionVars, seenVars, odd_used, act_odd, confirm_actions,
                    consumer, execVars, brainVars >>

SessionNext == Next \/ NewRun

SessionSpec == Init /\ [][SessionNext]_vars

(***************************************************************************)
(* The perception engine on its own: the device's tree changes, and the    *)
(* module captures it.                                                     *)
(***************************************************************************)
\* the device's screen gains a node (read by dump_hierarchy, vision.py:175)
UiChange ==
    /\ device_tree.n < MaxNodes
    /\ \E k \in NodeKinds, p \in 1..device_tree.n :
          device_tree' = [ n |-> device_tree.n + 1,
                           parent |-> Append(device_tree.parent, p),
                           node |-> Append(device_tree.node, k) ]
    /\ UNCHANGED << current_elements, uid_counter, ui_state, captures, capture_env >>
    /\ UNCHANGED << agentVars, runVars, seenVars, boundVars, execVars, brainVars >>

\* one call of VisionModule.get_ui_state
Capture ==
    /\ captures < MaxCaptures
    /\ \E env \in CaptureEnvCases :
          LET r == GetUiState(device_tree, env)
          IN  /\ current_elements' = r.elements
              /\ uid_counter' = r.counter
              /\ ui_state' = r.state
              /\ capture_env' = env
    /\ captures' = captures + 1
    /\ UNCHANGED device_tree
    /\ UNCHANGED << agentVars, runVars, seenVars, boundVars, execVars, brainVars >>

VisionInit ==
    /\ device_tree \in { SingleNodeTree(k) : k \in NodeKinds }
    /\ current_elements = << >>
    /\ uid_counter = 0
    /\ ui_state = NoUiState
    /\ captures = 0
    /\ capture_env = EnvOk
    /\ messages = << >>
    /\ current_screen = << >>
    /\ current_app = ""
    /\ step_count = 0
    /\ last_action = None
    /\ last_result = None
    /\ status = "running"
    /\ pending_confirmation = << >>
    /\ confirm_actions = FALSE
    /\ consumer = "none"
    /\ node = "END"
    /\ yields = 0
    /\ stopped = "no"
    /\ final_state = NoUpdate
    /\ request = << >>
    /\ oracle_out = "none"
    /\ oracle_calls = 0
    /\ invoked = << >>
    /\ device_cmds = << >>
    /\ odd_used = 0
    /\ act_odd = FALSE
    /\ runs = 0
    /\ ExecIdle
    /\ BrainIdle

VisionNext == UiChange \/ Capture

VisionSpec == VisionInit /\ [][VisionNext]_vars

(***************************************************************************)
(* The perception engine on one node: the dump is a single node with any   *)
(* of the attribute combinations of AllNodes, and the module captures it.  *)
(***************************************************************************)
NodeInit ==
    /\ device_tree \in { SingleNodeTree(k) : k \in AllNodes }
    /\ current_elements = << >>
    /\ uid_counter = 0
    /\ ui_state = NoUiState
    /\ captures = 0
    /\ capture_env = EnvOk
    /\ messages = << >>
    /\ current_screen = << >>
    /\ current_app = ""
    /\ step_count = 0
    /\ last_action = None
    /\ last_result = None
    /\ status = "running"
    /\ pending_confirmation = << >>
    /\ confirm_actions = FALSE
    /\ consumer = "none"
    /\ node = "END"
    /\ yields = 0
    /\ stopped = "no"
    /\ final_state = NoUpdate
    /\ request = << >>
    /\ oracle_out = "none"
    /\ oracle_calls = 0
    /\ invoked = << >>
    /\ device_cmds = << >>
    /\ odd_used = 0
    /\ act_odd = FALSE
    /\ runs = 0
    /\ ExecIdle
    /\ BrainIdle

NodeNext == Capture

NodeSpec == NodeInit /\ [][NodeNext]_vars

(***************************************************************************)
(* The summary: trees of one or three nodes whose elements show every form *)
(* of a summary line, captured by the module.                              *)
(***************************************************************************)
SummaryInit ==
    /\ LET id == << "com.app:id", "/", "content" >>
           kinds ==
             { N_Login, N_Image,
               \* text, description and resource id together
               MkNode(C_Button, << "Login" >>, << "logo" >>, id, B_Good, "true",
                      "false", "true"),
               \* a resource id and nothing else: materialised, not listed
               MkNode(C_View, << >>, << >>, id, B_Good, "false", "false", "true"),
               \* a clickable view with a resource id
               MkNode(C_View, << >>, << >>, id, B_Good, "true", "false", "true"),
               \* a clickable, scrollable container without text, description or id
               MkNode(C_ViewGroup, << >>, << >>, << >>, B_Good, "true", "true",
                      "true") }
       IN  device_tree \in
             { SingleNodeTree(k) : k \in kinds }
             \cup { [ n |-> 3, parent |-> << 0, 1, p >>, node |-> << k1, k2, k3 >> ] :
                      p \in 1..2, k1 \in kinds, k2 \in kinds, k3 \in kinds }
    /\ current_elements = << >>
    /\ uid_counter = 0
    /\ ui_state = NoUiState
    /\ captures = 0
    /\ capture_env = EnvOk
    /\ messages = << >>
    /\ current_screen = << >>
    /\ current_app = ""
    /\ step_count = 0
    /\ last_action = None
    /\ last_result = None
    /\ status = "running"
    /\ pending_confirmation = << >>
    /\ confirm_actions = FALSE
    /\ consumer = "none"
    /\ node = "END"
    /\ yields = 0
    /\ stopped = "no"
    /\ final_state = NoUpdate
    /\ request = << >>
    /\ oracle_out = "none"
    /\ oracle_calls = 0
    /\ invoked = << >>
    /\ device_cmds = << >>
    /\ odd_used = 0
    /\ act_odd = FALSE
    /\ runs = 0
    /\ ExecIdle
    /\ BrainIdle

SummarySpec == SummaryInit /\ [][Capture]_vars

(***************************************************************************)
(* The action executor on its own: the registry is that of a capture,      *)
(* and execute() is called with any action, the device failing or not.     *)
(***************************************************************************)
TwoNodeTree(k1, k2) ==
    [ n |-> 2, parent |-> << 0, 1 >>, node |-> << k1, k2 >> ]

ExecTrees ==
    { SingleNodeTree(N_Login), TwoNodeTree(N_Login, N_Image),
      TwoNodeTree(N_ZeroArea, N_Image) }

ExecInit ==
    /\ device_tree \in ExecTrees
    /\ \E r \in { GetUiState(device_tree, EnvOk) } :
          /\ current_elements = r.elements
          /\ uid_counter = r.counter
          /\ ui_state = r.state
    /\ captures = 1
    /\ capture_env = EnvOk
    /\ messages = << >>
    /\ current_screen = << >>
    /\ current_app = ""
    /\ step_count = 0
    /\ last_action = None
    /\ last_result = None
    /\ status = "running"
    /\ pending_confirmation = << >>
    /\ confirm_actions = FALSE
    /\ consumer = "none"
    /\ node = "END"
    /\ yields = 0
    /\ stopped = "no"
    /\ final_state = NoUpdate
    /\ request = << >>
    /\ oracle_out = "none"
    /\ oracle_calls = 0
    /\ invoked = << >>
    /\ device_cmds = << >>
    /\ odd_used = 0
    /\ act_odd = FALSE
    /\ runs = 0
    /\ display \in Displays
    /\ exec_action = NoAction
    /\ exec_result = NoResult
    /\ exec_fault = 0
    /\ exec_count = 0
    /\ BrainIdle

\* one call of ActionExecutor.execute
ExecuteAction ==
    /\ exec_count < MaxExec
    /\ \E action \in AgentActions, fault \in DeviceFaults :
          \E r \in { Execute(action, current_elements, display, fault) } :
             /\ exec_action' = action
             /\ exec_result' = r
             /\ exec_fault' = fault
             /\ device_cmds' = device_cmds \o r.cmds
    /\ exec_count' = exec_count + 1
    /\ UNCHANGED << visionVars, agentVars, runVars, boundVars, brainVars >>
    /\ UNCHANGED << request, oracle_out, oracle_calls, invoked, display >>

ExecNext == ExecuteAction

ExecSpec == ExecInit /\ [][ExecNext]_vars

(***************************************************************************)
(* reason's request on its own: the state is one that Perceive leaves at   *)
(* step 1, 2 or 3, over short and long screens, and the request is built   *)
(* from it.                                                                *)
(***************************************************************************)
RequestInputs ==
    LET article == MkNode(C_View, << LongWord >>, << >>, << >>,
                          BoundsStr(0, 0, 50, 50), "false", "false", "true")
        screens == { GetUiSummary(GetUiState(SingleNodeTree(n), env).state) :
                        n \in { N_Login, article }, env \in PerceiveEnvs }
        log == << HumanMessage("goal"), AIMessage("", WithIds(R_Back, 1)),
                  ToolMessage("Pressed back", CallId(1, 1)) >>
    IN  { [ msgs |-> << HumanMessage("goal") >>, count |-> 1, action |-> None,
            result |-> None, app |-> "", screen |-> s ] : s \in screens }
        \cup { [ msgs |-> log, count |-> c, action |-> a, result |-> r, app |-> p,
                 screen |-> s ] :
                 c \in 2..3, a \in { "press_back", "open_app" },
                 r \in { "Pressed back", "Back failed", "Opened com.spotify.music" },
                 p \in { "", P_Focus }, s \in screens }

RequestInit ==
    /\ device_tree = SingleNodeTree(N_Login)
    /\ current_elements = << >>
    /\ uid_counter = 0
    /\ ui_state = NoUiState
    /\ captures = 0
    /\ capture_env = EnvOk
    /\ \E in \in RequestInputs :
          /\ messages = in.msgs
          /\ step_count = in.count
          /\ last_action = in.action
          /\ last_result = in.result
          /\ current_screen = in.screen
          /\ current_app = IF in.screen[1].k = "Current App:" /\ in.count = 1
                           THEN in.screen[1].package ELSE in.app
    /\ status = "running"
    /\ pending_confirmation = << >>
    /\ confirm_actions = FALSE
    /\ consumer = "none"
    /\ node = "reason"
    /\ yields = 0
    /\ stopped = "no"
    /\ final_state = NoUpdate
    /\ request = << >>
    /\ oracle_out = "none"
    /\ oracle_calls = 0
    /\ invoked = << >>
    /\ device_cmds = << >>
    /\ odd_used = 0
    /\ act_odd = FALSE
    /\ runs = 0
    /\ ExecIdle
    /\ BrainIdle

\* reason up to its oracle call; the goal may or may not speak of opening
BuildCall ==
    /\ node = "reason" /\ consumer = "none"
    /\ \E opened \in BOOLEAN :
          /\ opened => last_result = "Opened com.spotify.music"
          /\ request' = BuildRequest(messages, step_count, last_action, last_result,
                                     current_app, current_screen, opened)
    /\ node' = "END"
    /\ UNCHANGED << visionVars, agentVars, boundVars, execVars, brainVars >>
    /\ UNCHANGED << confirm_actions, consumer, yields, stopped, final_state >>
    /\ UNCHANGED << oracle_out, oracle_calls, invoked, device_cmds >>

RequestNext == BuildCall

RequestSpec == RequestInit /\ [][RequestNext]_vars

(***************************************************************************)
(* The brain on its own: think() is called again and again on one          *)
(* AgentBrain, the chat service replying as it likes.                      *)
(***************************************************************************)
BrainInit ==
    /\ device_tree = SingleNodeTree(N_Login)
    /\ current_elements = << >>
    /\ uid_counter = 0
    /\ ui_state = NoUiState
    /\ captures = 0
    /\ capture_env = EnvOk
    /\ messages = << >>
    /\ current_screen = << >>
    /\ current_app = ""
    /\ step_count = 0
    /\ last_action = None
    /\ last_result = None
    /\ status = "running"
    /\ pending_confirmation = << >>
    /\ confirm_actions = FALSE
    /\ consumer = "none"
    /\ node = "END"
    /\ yields = 0
    /\ stopped = "no"
    /\ final_state = NoUpdate
    /\ request = << >>
    /\ oracle_out = "none"
    /\ oracle_calls = 0
    /\ invoked = << >>
    /\ device_cmds = << >>
    /\ odd_used = 0
    /\ act_odd = FALSE
    /\ runs = 0
    /\ ExecIdle
    /\ BrainIdle

\* one call of AgentBrain.think
ThinkCall ==
    /\ Len(brain_replies) < MaxThinks
    /\ \E reply \in BrainReplies :
          \E r \in { Think(conversation_history, reply) } :
             /\ conversation_history' = r.history
             /\ brain_action' = r.action
             /\ brain_replies' = Append(brain_replies, reply)
    /\ UNCHANGED << visionVars, agentVars, runVars, seenVars, boundVars, execVars >>

BrainNext == ThinkCall

BrainSpec == BrainInit /\ [][BrainNext]_vars

(***************************************************************************)
(* Vocabulary of the properties.                                           *)
(***************************************************************************)
IsPrefix(s, t) == Len(s) <= Len(t) /\ SubSeq(t, 1, Len(s)) = s

\* the run is over: the graph has finished, or run_task has left its loop
Halted == node = "END" \/ stopped # "no"

\* every oracle reply so far carried a tool invocation (and no call failed)
AllToolReplies ==
    \A i \in 1..Len(messages) :
        messages[i].type = "ai" => messages[i].tool_calls # << >>

\* the entries a step has added to the log
Added == SubSeq(messages', Len(messages) + 1, Len(messages'))

FailureTexts ==
    { "Unknown tool", "Error executing", "Element with UID not found",
      "Click failed", "Back failed" }

\* every invocation in the log has its result later in the log
AllCallsAnswered ==
    \A i \in 1..Len(messages) :
        \A c \in 1..Len(messages[i].tool_calls) :
            \E j \in (i + 1)..Len(messages) :
                /\ messages[j].type = "tool"
                /\ messages[j].tool_call_id = messages[i].tool_calls[c].id

C3_TextReplyCompletes ==
    oracle_out = "text" => (node = "END" /\ status = "completed")

(***************************************************************************)
(* C4.  When the oracle call of Reason fails, the status is error, the     *)
(* one entry added to the log is the diagnostic assistant message, the     *)
(* graph is at End, and no tool is dispatched and no device command        *)
(* issued from then on.                                                    *)
(***************************************************************************)
C4_OracleFailureIsFatal ==
    /\ [](oracle_out = "fail" =>
            /\ status = "error"
            /\ node = "END"
            /\ messages[Len(messages)] = AIMessage("I encountered an error", << >>))
    /\ [][(oracle_out # "fail" /\ oracle_out' = "fail")
            => Len(messages') = Len(messages) + 1]_vars
    /\ [][oracle_out = "fail"
            => (invoked' = invoked /\ device_cmds' = device_cmds)]_vars

C4_Witness ==
    oracle_out = "fail" /\ status = "error" /\ invoked # << >> /\ step_count > 1

(***************************************************************************)
(* C5.  A tool invocation that fails in Act (unknown tool name, exception  *)
(* raised by the tool, executor result with ok = false) gets a tool result *)
(* with the failure text in the log; the status is running after that Act, *)
(* never error, and the graph goes back to Perceive unless the step        *)
(* counter has reached the ceiling.                                        *)
(***************************************************************************)
CallFails(calls, i) ==
    \/ calls[i].name \notin TOOLS
    \/ ~calls[i].args.valid
    \/ /\ i = 1
       /\ calls[i].name = "click_element"
       /\ ElementsByUid(current_elements, calls[i].args.uid) = << >>
    \/ /\ Len(calls) = 1
       /\ \E j \in (Len(device_cmds) + 1)..Len(device_cmds') : ~device_cmds'[j].ok

C5_ToolFailureIsNotFatal ==
    [][ (node = "act" /\ \E i \in 1..Len(Calls(messages)) : CallFails(Calls(messages), i))
        => /\ \A i \in 1..Len(Calls(messages)) :
                CallFails(Calls(messages), i)
                => /\ Len(Added) >= i
                   /\ Added[i].type = "tool"
                   /\ Added[i].tool_call_id = Calls(messages)[i].id
                   /\ Added[i].content \in FailureTexts
           /\ status' = "running"
           /\ node' = IF step_count >= MAX_STEPS THEN "END" ELSE "perceive" ]_vars

C5_Witness ==
    /\ node = "perceive" /\ status = "running"
    /\ messages[Len(messages)].type = "tool"
    /\ messages[Len(messages)].content \in FailureTexts

(***************************************************************************)
(* C6.  When the capture made by Perceive fails, the screen summary is the *)
(* diagnostic text, the status is left as it was (not error), the step     *)
(* counter is incremented, and Reason is the next node.                    *)
(***************************************************************************)
C6_CaptureFailureIsAbsorbed ==
    [][ (node = "perceive" /\ ui_state'.kind = "error")
        => /\ Len(current_screen') = 1
           /\ current_screen'[1].k = "Error getting UI:"
           /\ status' = status
           /\ status' # "error"
           /\ step_count' = step_count + 1
           /\ node' = "reason" ]_vars

C6_Witness ==
    /\ node = "reason" /\ ui_state.kind = "error" /\ step_count > 1
    /\ current_screen[1].k = "Error getting UI:" /\ status = "running"

(***************************************************************************)
(* C7.  In confirmation mode, once HumanReview has set status needs_input, *)
(* no tool is dispatched and no device command is issued (nothing resumes  *)
(* the loop from outside).                                                 *)
(***************************************************************************)
C7_ReviewHaltsExecution ==
    [][ status = "needs_input"
        => (invoked' = invoked /\ device_cmds' = device_cmds) ]_vars

(***************************************************************************)
(* C8.  The log only grows at its end; the message list of every oracle    *)
(* call holds the whole log, in order, right after the system instruction; *)
(* and whenever Reason runs, every invocation in the log has its tool      *)
(* result in the log.                                                      *)
(***************************************************************************)
C8_LogAppendOnlyAndComplete ==
    /\ [][IsPrefix(messages, messages')]_vars
    /\ [][ node = "reason"
           => /\ request'[1].type = "system"
              /\ SubSeq(request', 2, Len(messages) + 1) = messages ]_vars
    /\ [](node = "reason" => AllCallsAnswered)

C8_Witness ==
    /\ node = "act" /\ Len(request) > 4
    /\ \E i \in 1..Len(request) : request[i].type = "tool"

(***************************************************************************)
(* C9.  A run through run_task in which every oracle reply carries a tool  *)
(* invocation is not over before its step counter has reached 20.          *)
(***************************************************************************)
C9_OnlyTheCeilingStops ==
    (consumer = "run_task" /\ Halted /\ AllToolReplies) => step_count >= MAX_STEPS

(***************************************************************************)
(* C10.  After a capture the identifiers of the registry's elements are    *)
(* 1, 2, ..., N in traversal order: the i-th element has identifier i.     *)
(***************************************************************************)
C10_IdsAreOneToN ==
    captures > 0 =>
        \A i \in 1..Len(current_elements) : current_elements[i].uid = i

(***************************************************************************)
(* C11.  A capture replaces the registry: what the registry holds after a  *)
(* capture was produced by that capture from the tree on the device.  It   *)
(* holds no more elements than the tree has nodes, every element is the    *)
(* element of a node of that tree, identifiers increase along the registry *)
(* and none exceeds the number of nodes, and when the root is materialised *)
(* it carries identifier 1.                                                *)
(***************************************************************************)
IsElementOf(el, n) ==
    el = UIElement(el.uid, n, ParseBounds(Get(n, "bounds", DefaultBoundsStr)))

C11_CaptureReplacesRegistry ==
    [][ captures' = captures + 1
        => /\ Len(current_elements') <= device_tree.n
           /\ uid_counter' <= device_tree.n
           /\ \A i \in 1..Len(current_elements') :
                 /\ current_elements'[i].uid \in 1..device_tree.n
                 /\ \E j \in 1..device_tree.n :
                       IsElementOf(current_elements'[i], device_tree.node[j])
                 /\ \A k \in 1..(i - 1) :
                       current_elements'[k].uid < current_elements'[i].uid
           /\ (current_elements' # << >> /\ ParseNode(device_tree.node[1], 0).found)
                 => current_elements'[1].uid = 1 ]_vars

C11_Witness ==
    /\ captures = 2 /\ device_tree.n >= 2
    /\ Len(current_elements) >= 2 /\ current_elements[1].uid = 1

(***************************************************************************)
(* C12.  Every element of the registry has right > left and bottom > top,  *)
(* and a node whose bounds string is not exactly a rectangle pair          *)
(* "[l,t][r,b]" of decimal numbers is not materialised (the zero           *)
(* rectangle it is parsed as fails the area test).                         *)
(***************************************************************************)
Root == device_tree.node[1]

WellFormedBounds(s) ==
    /\ Len(s) = 10
    /\ s[1].k = "[" /\ s[2].k = "num" /\ s[3].k = "," /\ s[4].k = "num"
    /\ s[5].k = "]" /\ s[6].k = "[" /\ s[7].k = "num" /\ s[8].k = ","
    /\ s[9].k = "num" /\ s[10].k = "]"

C12_PositiveAreaAndMalformedDropped ==
    /\ \A i \in 1..Len(current_elements) :
          /\ current_elements[i].bounds[3] > current_elements[i].bounds[1]
          /\ current_elements[i].bounds[4] > current_elements[i].bounds[2]
    /\ (captures > 0 /\ ~WellFormedBounds(Get(Root, "bounds", DefaultBoundsStr)))
          => current_elements = << >>

(***************************************************************************)
(* C13.  A node whose enabled attribute is "false" is not materialised,    *)
(* whatever its other attributes are.                                      *)
(***************************************************************************)
C13_DisabledNeverMaterialised ==
    ("enabled" \in Root.present /\ Root.enabled = "false")
        => current_elements = << >>

C13_Witness ==
    /\ captures > 0 /\ ui_state.kind = "ok"
    /\ "enabled" \in Root.present /\ Root.enabled = "false"
    /\ Get(Root, "text", << >>) # << >> /\ Get(Root, "clickable", "false") = "true"
    /\ Get(Root, "class", << >>) = C_Button
    /\ Get(Root, "bounds", DefaultBoundsStr) = B_Good

(***************************************************************************)
(* C14 as claimed.  After a capture whose dump succeeded, the node is      *)
(* materialised exactly when it is enabled, its parsed bounds have         *)
(* positive area, and it has a text, a description or a resource id, or is *)
(* clickable or scrollable with a class that is one of the allow-list.     *)
(***************************************************************************)
Enabled(n) == Get(n, "enabled", "true") = "true"

PositiveArea(n) ==
    LET b == ParseBounds(Get(n, "bounds", DefaultBoundsStr))
    IN  b[3] > b[1] /\ b[4] > b[2]

HasContent(n) ==
    \/ Get(n, "text", << >>) # << >>
    \/ Get(n, "content_desc", << >>) # << >>
    \/ Get(n, "resource_id", << >>) # << >>

Interactive(n) ==
    Get(n, "clickable", "false") = "true" \/ Get(n, "scrollable", "false") = "true"

C14_IncludedIffListedClass ==
    (captures > 0 /\ ui_state.kind = "ok")
        => ( current_elements # << >>
             <=> /\ Enabled(Root)
                 /\ PositiveArea(Root)
                 /\ \/ HasContent(Root)
                    \/ Interactive(Root) /\ Get(Root, "class", << >>) \in meaningful_types )

(***************************************************************************)
(* C14 as amended.  The same, the class test being that the class name     *)
(* contains an entry of the allow-list.                                    *)
(***************************************************************************)
C14_IncludedIffClassContainsListed ==
    (captures > 0 /\ ui_state.kind = "ok")
        => /\ current_elements # << >>
              <=> /\ Enabled(Root)
                  /\ PositiveArea(Root)
                  /\ \/ HasContent(Root)
                     \/ /\ Interactive(Root)
                        /\ \E t \in meaningful_types :
                              IsSubstring(t, Get(Root, "class", << >>))
           /\ current_elements # << >>
              => /\ Len(current_elements) = 1
                 /\ IsElementOf(current_elements[1], Root)

C14_Witness ==
    /\ captures > 0 /\ ui_state.kind = "ok" /\ current_elements # << >>
    /\ ~HasContent(Root) /\ Interactive(Root)
    /\ Get(Root, "class", << >>) = C_ViewGroup

(***************************************************************************)
(* C15.  The identifiers of the registry's elements are positive and       *)
(* pairwise distinct, and after a successful capture every element line    *)
(* of its summary carries an identifier that the registry lookup resolves  *)
(* to the element the line was printed from.                               *)
(***************************************************************************)
C15_IdsDistinctAndResolvable ==
    /\ \A i \in 1..Len(current_elements) :
          /\ current_elements[i].uid > 0
          /\ \A j \in 1..Len(current_elements) :
                current_elements[i].uid = current_elements[j].uid => i = j
    /\ (captures > 0 /\ ui_state.kind = "ok")
          => \A k \in 1..Len(GetUiSummary(ui_state)) :
                LET line == GetUiSummary(ui_state)[k]
                    found == ElementsByUid(current_elements, line.uid)
                IN  line.k = "element"
                    => /\ found # << >>
                       /\ ElementLine(ToDict(found[1])) = line

C15_Witness ==
    /\ captures > 0 /\ ui_state.kind = "ok"
    /\ Len(current_elements) >= 2
    /\ Len(GetUiSummary(ui_state)) >= 5
    /\ current_elements[1].uid > 1

(***************************************************************************)
(* C16.  A click on an identifier that is in the registry makes exactly    *)
(* one device call, a tap at ((left + right) \div 2, (top + bottom) \div 2)*)
(* of the bounds of the registry's element with that identifier.           *)
(***************************************************************************)
ClickOn(uid) ==
    /\ exec_count > 0
    /\ exec_action.action = "click"
    /\ exec_action.target_uid = Some(uid)

InRegistry(uid) == \E i \in 1..Len(current_elements) : current_elements[i].uid = uid

C16_ClickTapsCenter ==
    \A i \in 1..Len(current_elements) :
        ClickOn(current_elements[i].uid)
        => /\ Len(exec_result.cmds) = 1
           /\ exec_result.cmds[1].cmd = "click"
           /\ 2 * exec_result.cmds[1].x <= current_elements[i].bounds[1]
                                           + current_elements[i].bounds[3]
           /\ current_elements[i].bounds[1] + current_elements[i].bounds[3]
                 < 2 * exec_result.cmds[1].x + 2
           /\ 2 * exec_result.cmds[1].y <= current_elements[i].bounds[2]
                                           + current_elements[i].bounds[4]
           /\ current_elements[i].bounds[2] + current_elements[i].bounds[4]
                 < 2 * exec_result.cmds[1].y + 2

C16_Witness ==
    /\ ClickOn(2) /\ InRegistry(2) /\ exec_result.ok
    /\ exec_result.cmds = << DeviceCmd("click", 6, 7, TRUE) >>

(***************************************************************************)
(* C17.  A click without an identifier, or with an identifier that is not  *)
(* in the registry, returns ok = false and makes no device call.           *)
(***************************************************************************)
C17_ClickWithoutTargetDoesNothing ==
    ( /\ exec_count > 0
      /\ exec_action.action = "click"
      /\ \/ exec_action.target_uid = Absent
         \/ ~InRegistry(exec_action.target_uid[1]) )
    => /\ exec_result.ok = FALSE
       /\ exec_result.cmds = << >>
       /\ ~exec_result.raised

C17_Witness ==
    /\ ClickOn(1) /\ ~InRegistry(1) /\ current_elements # << >>
    /\ exec_result.ok = FALSE /\ exec_result.cmds = << >>

(***************************************************************************)
(* C18.  A scroll down, or with no direction, on a device that answers,    *)
(* makes one swipe along the vertical centre line, from below the centre   *)
(* to above it, centred on the screen midpoint and one-third of the screen *)
(* height long.                                                            *)
(***************************************************************************)
ScrollDown ==
    /\ exec_count > 0
    /\ exec_action.action = "scroll"
    /\ exec_action.direction \in { Absent, Some(""), Some("down") }
    /\ exec_result.ok

Swipes(cmds) == SelectSeq(cmds, LAMBDA c : c.cmd = "swipe")

C18_ScrollDownSwipesOneThird ==
    ScrollDown
    => /\ Len(Swipes(exec_result.cmds)) = 1
       /\ LET s == Swipes(exec_result.cmds)[1]
              h == display.displayHeight
              w == display.displayWidth
          IN  /\ s.x = w \div 2 /\ s.x2 = w \div 2
              /\ s.y > s.y2
              /\ s.y + s.y2 = 2 * (h \div 2)
              /\ s.y - s.y2 = h \div 3

(***************************************************************************)
(* C18 as amended.  The one swipe runs along the vertical centre line from *)
(* one-third of the screen height below the screen midpoint to one-third   *)
(* of the screen height above it.                                          *)
(***************************************************************************)
C18_ScrollDownSwipesThirdEachSide ==
    ScrollDown
    => /\ Len(Swipes(exec_result.cmds)) = 1
       /\ LET s == Swipes(exec_result.cmds)[1]
              h == display.displayHeight
              w == display.displayWidth
          IN  /\ s.x = w \div 2 /\ s.x2 = w \div 2
              /\ s.y = (h \div 2) + (h \div 3)
              /\ s.y2 = (h \div 2) - (h \div 3)

C18_Witness ==
    /\ ScrollDown /\ exec_action.direction = Absent
    /\ display = [ displayWidth |-> 7, displayHeight |-> 11 ]
    /\ Swipes(exec_result.cmds) = << DeviceSwipe(3, 8, 3, 2, TRUE) >>

(***************************************************************************)
(* C19.  A scroll whose direction is not up, down, left or right returns   *)
(* the invalid-direction failure and makes no device call of any kind.     *)
(***************************************************************************)
C19_InvalidDirectionTouchesNothing ==
    ( /\ exec_count > 0
      /\ exec_action.action = "scroll"
      /\ exec_action.direction
            \notin { Absent, Some(""), Some("down"), Some("up"), Some("left"),
                     Some("right") } )
    => /\ exec_result.ok = FALSE
       /\ exec_result.msg = "Invalid scroll direction"
       /\ exec_result.cmds = << >>

(***************************************************************************)
(* C20.  execute() returns an (ok, message) pair and never raises,         *)
(* whatever the action and whichever device or library call fails, and ok  *)
(* is false whenever a device call failed.                                 *)
(***************************************************************************)
C20_ExecutorNeverRaises ==
    exec_count > 0
    => /\ ~exec_result.raised
       /\ exec_result.ok \in BOOLEAN
       /\ (\E i \in 1..Len(exec_result.cmds) : ~exec_result.cmds[i].ok)
             => exec_result.ok = FALSE
       /\ (exec_action.action = "open_app" /\ exec_result.msg = "Open app failed: <e>")
             => exec_result.ok = FALSE

C20_Witness ==
    /\ exec_count = 2
    /\ exec_action.action = "home" /\ exec_result.ok = FALSE
    /\ exec_result.cmds = << DeviceCall("press home", FALSE) >>
    /\ \E i \in 1..Len(device_cmds) : device_cmds[i].cmd = "swipe" /\ ~device_cmds[i].ok

(***************************************************************************)
(* C21.  open_app without a package fails without calling the application  *)
(* directory; with a package it returns (true, "Opened <package>") exactly *)
(* when the directory reports that the launch succeeded, and ok = false    *)
(* when the directory reports failure or raises.                           *)
(***************************************************************************)
OpenApp ==
    /\ exec_count > 0
    /\ exec_action.action = "open_app"

C21_OpenAppFollowsDirectory ==
    OpenApp
    => IF Falsy(exec_action.app_package)
       THEN /\ exec_result.ok = FALSE
            /\ exec_result.cmds = << >>
       ELSE LET package == exec_action.app_package[1]
                launch  == LaunchApp(package, exec_fault)
                opened  == /\ exec_result.ok = TRUE
                           /\ exec_result.msg = "Opened " \o package
            IN  /\ opened <=> (launch.success /\ ~launch.raised)
                /\ ~opened => exec_result.ok = FALSE
                /\ exec_result.cmds = launch.cmds

C21_Witness ==
    /\ OpenApp
    /\ exec_action.app_package = Some("com.spotify.music")
    /\ exec_result.ok = TRUE
    /\ exec_result.msg = "Opened com.spotify.music"
    /\ exec_result.cmds = << DeviceArg("app_start", "com.spotify.music", TRUE) >>

(***************************************************************************)
(* C22.  type without text returns ok = false and issues no device         *)
(* command; with text it clears the focused input and then sends the text  *)
(* unchanged, in that order, and when the clearing fails no text is sent.  *)
(***************************************************************************)
TypeAction ==
    /\ exec_count > 0
    /\ exec_action.action = "type"

Sent(cmds) == { i \in 1..Len(cmds) : cmds[i].cmd = "send_keys" }

C22_TypeClearsThenSends ==
    TypeAction
    => LET cmds == exec_result.cmds
       IN  IF Falsy(exec_action.text)
           THEN exec_result.ok = FALSE /\ cmds = << >>
           ELSE /\ Len(cmds) >= 1
                /\ cmds[1].cmd = "clear_text"
                /\ Sent(cmds) \subseteq { 2 }
                /\ \A i \in Sent(cmds) : cmds[i].arg = exec_action.text[1]
                /\ cmds[1].ok <=> Sent(cmds) = { 2 }
                /\ exec_result.ok => cmds = << DeviceCall("clear_text", TRUE),
                                               DeviceArg("send_keys", exec_action.text[1], TRUE) >>

C22_Witness ==
    /\ TypeAction
    /\ exec_action.text = Some("hi")
    /\ exec_fault = 1
    /\ exec_result.ok = FALSE
    /\ exec_result.cmds = << DeviceCall("clear_text", FALSE) >>

(***************************************************************************)
(* C23.  For the action kinds done, respond and ask the executor issues no *)
(* device command and returns ok = true; respond and ask return the        *)
(* message the action carries, or the placeholder "No message" / "No       *)
(* question" when it carries none, and done returns "Task completed"       *)
(* whatever the action carries.                                            *)
(***************************************************************************)
Conversational ==
    /\ exec_count > 0
    /\ exec_action.action \in { "done", "respond", "ask" }

Placeholder(action) ==
    IF action = "done" THEN "Task completed"
    ELSE IF action = "respond" THEN "No message"
    ELSE "No question"

\* as stated: the message of the action is returned for all three kinds
C23_MessageReturnedOrPlaceholder ==
    Conversational
    => /\ exec_result.cmds = << >>
       /\ exec_result.ok = TRUE
       /\ exec_result.msg = IF Falsy(exec_action.message)
                            THEN Placeholder(exec_action.action)
                            ELSE exec_action.message[1]

C23_DoneIgnoresItsMessage ==
    Conversational
    => /\ exec_result.cmds = << >>
       /\ exec_result.ok = TRUE
       /\ exec_result.msg = IF \/ exec_action.action = "done"
                               \/ Falsy(exec_action.message)
                            THEN Placeholder(exec_action.action)
                            ELSE exec_action.message[1]

C23_Witness ==
    /\ Conversational
    /\ exec_action.action = "done"
    /\ exec_action.message = Some("hello")
    /\ exec_fault = 1
    /\ exec_result = Result(TRUE, "Task completed", << >>)

(***************************************************************************)
(* C24.  The registry is replaced only at the end of a successful capture: *)
(* a capture that reports an error leaves the registry as the last         *)
(* successful capture left it, and never leaves newly parsed elements in   *)
(* it.                                                                     *)
(***************************************************************************)
C24_FailedCaptureKeepsRegistry ==
    [][ (captures' = captures + 1 /\ ui_state'.kind = "error")
        => current_elements' = current_elements ]_vars

(***************************************************************************)
(* C25.  When the window dump is obtained but neither the focus owner nor  *)
(* the focused app matches the package pattern, the capture reports the    *)
(* package that the device layer gives for the current application.        *)
(***************************************************************************)
WindowDumpWithoutMatch ==
    /\ captures > 0
    /\ capture_env.dump = "ok"
    /\ capture_env.window = "nomatch"
    /\ capture_env.fallback = "package"

C25_NoMatchFallsBackToDevice ==
    WindowDumpWithoutMatch
    => /\ ui_state.kind = "ok"
       /\ ui_state.package = P_Device

(***************************************************************************)
(* C26.  When the window dump cannot be obtained and the query to the      *)
(* device layer fails too, the capture still succeeds: the package is      *)
(* reported as unknown and the elements parsed from the tree are returned, *)
(* not an error.                                                           *)
(***************************************************************************)
BothStrategiesFail ==
    /\ captures > 0
    /\ capture_env.dump = "ok"
    /\ capture_env.window = "raise"
    /\ capture_env.fallback = "raise"

C26_UnknownPackageNeverAborts ==
    BothStrategiesFail
    => /\ ui_state.kind = "ok"
       /\ ui_state.package = "unknown"
       /\ ui_state.element_count = Len(current_elements)
       /\ ui_state.elements = MapToDict(SelectSeq(current_elements, Listed))

(***************************************************************************)
(* C27.  A reply that is not structured triggers one corrective re-prompt: *)
(* over any sequence of think() calls, the second such reply in a row is   *)
(* treated as fatal and no further correction is added to the              *)
(* conversation.                                                           *)
(***************************************************************************)
Malformed(reply) == ~reply.raises /\ reply.text.body = "prose"

TwoMalformedInARow ==
    LET n == Len(brain_replies)
    IN  /\ n >= 2
        /\ Malformed(brain_replies[n - 1])
        /\ Malformed(brain_replies[n])

C27_SecondMalformedReplyIsFatal ==
    TwoMalformedInARow
    => /\ brain_action.action # "wait"
       /\ conversation_history[Len(conversation_history)] # Correction

(***************************************************************************)
(* C28.  What run_task returns is the last free-text reply of the run, and *)
(* the fallback "Task completed" only when the run had no free-text reply  *)
(* at all.  The replies of the run are the assistant messages of the log.  *)
(***************************************************************************)
Returned == consumer = "run_task" /\ Halted

C28_ReturnsLastFreeText ==
    Returned => FinalResponse(final_state) = LastContent(messages)

(***************************************************************************)
(* C29.  Every run starts at Perceive, and in each step the nodes run in   *)
(* the order Perceive, Reason, then Act (through HumanReview in            *)
(* confirmation mode) only when the reply carries an invocation: a step    *)
(* has one capture by Perceive and one oracle call, and Act never runs     *)
(* without the Reason of its step having replied with a tool invocation.   *)
(***************************************************************************)
\* the last entry of the log is an oracle reply carrying an invocation
ReplyWithInvocation(msgs) ==
    /\ msgs # << >>
    /\ msgs[Len(msgs)].type = "ai"
    /\ msgs[Len(msgs)].tool_calls # << >>

StepCounts ==
    /\ yields = 0 => (node = "perceive" /\ step_count = 0)
    /\ oracle_calls = IF node = "reason" THEN step_count - 1 ELSE step_count
    /\ node \in { "act", "human_review" } => ReplyWithInvocation(messages)

StepOrder ==
    \/ /\ node = "perceive"
       /\ node' = "reason"
       /\ step_count' = step_count + 1
       /\ captures' = captures + 1
       /\ oracle_calls' = oracle_calls
    \/ /\ node = "reason"
       /\ node' \in { "act", "human_review", "END" }
       /\ node' = "human_review" <=> (confirm_actions /\ node' # "END")
       /\ node' # "END" <=> (oracle_out' = "tools" /\ ReplyWithInvocation(messages'))
       /\ oracle_calls' = oracle_calls + 1
       /\ step_count' = step_count
       /\ captures' = captures
    \/ /\ node = "human_review"
       /\ node' = "act"
       /\ messages' = messages
       /\ << step_count', oracle_calls', captures' >> = << step_count, oracle_calls, captures >>
    \/ /\ node = "act"
       /\ node' \in { "perceive", "END" }
       /\ ReplyWithInvocation(messages)
       /\ << step_count', oracle_calls' >> = << step_count, oracle_calls >>

C29_StepRunsPerceiveReasonAct == []StepCounts /\ [][StepOrder]_vars

C29_Witness ==
    /\ node = "END"
    /\ confirm_actions
    /\ step_count = 2
    /\ oracle_calls = 2
    /\ oracle_out = "text"
    /\ Len(invoked) = 1

(***************************************************************************)
(* C30.  For a reply carrying k tool invocations, Act goes through all k   *)
(* in reply order, also after an earlier one has failed: every invocation  *)
(* that names a registered tool is dispatched to it, and exactly k tool    *)
(* results are appended to the log in the same order, each carrying the    *)
(* identifier of the invocation it answers.                                *)
(***************************************************************************)
Registered(call) == call.name \in TOOLS

IdsOf(calls) == [ i \in 1..Len(calls) |-> calls[i].id ]

C30_ActAnswersEveryInvocation ==
    [][ node = "act"
        => LET calls == Calls(messages)
           IN  /\ Len(Added) = Len(calls)
               /\ \A i \in 1..Len(calls) :
                     /\ Added[i].type = "tool"
                     /\ Added[i].tool_call_id = calls[i].id
               /\ invoked' = invoked \o IdsOf(SelectSeq(calls, Registered)) ]_vars

C30_Witness ==
    /\ Len(messages) >= 3
    /\ LET n == Len(messages)
       IN  /\ ReplyWithInvocation(SubSeq(messages, 1, n - 2))
           /\ Len(messages[n - 2].tool_calls) = 2
           /\ messages[n - 1] = ToolMessage("Element with UID not found",
                                            messages[n - 2].tool_calls[1].id)
           /\ messages[n] = ToolMessage("Pressed back",
                                        messages[n - 2].tool_calls[2].id)
           /\ invoked = IdsOf(messages[n - 2].tool_calls)
    /\ device_cmds # << >>

(***************************************************************************)
(* C31.  After Act on a reply with one or more invocations, status is      *)
(* running and last_action and last_result both describe the first         *)
(* invocation of the reply: its tool name and the text of its result.      *)
(***************************************************************************)
C31_LastFieldsDescribeFirstInvocation ==
    [][ (node = "act" /\ Calls(messages) # << >>)
        => /\ status' = "running"
           /\ last_action' = Calls(messages)[1].name
           /\ last_result' = Added[1].content ]_vars

(***************************************************************************)
(* C32.  The request Reason builds holds the context block (previous       *)
(* action and result, foreground application, the UI summary cut to at     *)
(* most its first 1500 characters) only from the second step onward; at    *)
(* step 1 it is the system instruction followed by the log.                *)
(***************************************************************************)
RequestBuilt == consumer = "none" /\ node = "END" /\ request # << >>

\* the screen part is the first characters of the summary, 1500 at most
CutToLimit(part, screen) ==
    LET total == SummaryLen(screen)[Len(screen)]
        kept == SummaryLen(part.lines)[Len(part.lines)] + part.cut
    IN  /\ IsPrefix(part.lines, screen)
        /\ kept = IF total <= SCREEN_LIMIT THEN total ELSE SCREEN_LIMIT
        /\ part.cut > 0 => Len(part.lines) < Len(screen)

C32_ContextFromSecondStep ==
    RequestBuilt
    => /\ request[1] = SystemMessage
       /\ SubSeq(request, 2, Len(messages) + 1) = messages
       /\ step_count = 1 => Len(request) = Len(messages) + 1
       /\ step_count > 1
             => /\ Len(request) = Len(messages) + 2
                /\ LET block == request[Len(request)]
                   IN  /\ block.type = "human"
                       /\ { "previous", "screen" } \subseteq block.ctx
                       /\ block.context.action = last_action
                       /\ block.context.result = last_result
                       /\ "app" \in block.ctx <=> current_app # ""
                       /\ block.context.app = current_app
                       /\ CutToLimit(block.context.screen, current_screen)

C32_Witness ==
    /\ RequestBuilt
    /\ step_count = 2
    /\ SummaryLen(current_screen)[Len(current_screen)] > SCREEN_LIMIT
    /\ request[Len(request)].context.screen.cut > 0
    /\ Len(request[Len(request)].context.screen.lines) = 3

(***************************************************************************)
(* C33.  The summary of a successful capture names the foreground package  *)
(* in its first line and, after the heading, has exactly one line for      *)
(* every element of the registry that is clickable, scrollable or carries  *)
(* text or a description, in identifier order.  A line shows the           *)
(* identifier, then the first non-empty of text, description and resource  *)
(* id (as its last segment), else the kind name, then the clickable and    *)
(* scrollable markers that apply.  A clickable Button "Login" alone on the *)
(* screen gives the line [1] "Login" clickable.                            *)
(***************************************************************************)
Shown(el) ==
    IF el.text # << >> THEN << "text", el.text >>
    ELSE IF el.content_desc # << >> THEN << "desc", el.content_desc >>
    ELSE IF LastSegment(el.resource_id, "/") # << >>
    THEN << "resource", LastSegment(el.resource_id, "/") >>
    ELSE << "type", el.element_type >>

C33_SummaryListsElementsByPriority ==
    (captures > 0 /\ ui_state.kind = "ok")
    => LET summary == GetUiSummary(ui_state)
           listed == SelectSeq(current_elements, Listed)
       IN  /\ Len(summary) = 3 + Len(listed)
           /\ summary[1].k = "Current App:"
           /\ summary[1].package = ui_state.package
           /\ \A i \in 1..Len(listed) :
                 LET line == summary[3 + i]
                 IN  /\ line.k = "element"
                     /\ line.uid = listed[i].uid
                     /\ << line.form, line.label >> = Shown(listed[i])
                     /\ line.clickable = listed[i].clickable
                     /\ line.scrollable = listed[i].scrollable
                     /\ \A j \in 1..(i - 1) : summary[3 + j].uid < line.uid
           /\ device_tree = SingleNodeTree(N_Login)
                 => summary[4] = [ Line("element") EXCEPT
                                     !.uid = 1, !.form = "text",
                                     !.label = << "Login" >>, !.clickable = TRUE ]

C33_Witness ==
    /\ captures > 0 /\ ui_state.kind = "ok"
    /\ Len(current_elements) = 3
    /\ Len(GetUiSummary(ui_state)) = 5
    /\ GetUiSummary(ui_state)[4] = [ Line("element") EXCEPT
                                       !.uid = 1, !.form = "text",
                                       !.label = << "Login" >>, !.clickable = TRUE ]
    /\ GetUiSummary(ui_state)[5] = [ Line("element") EXCEPT
                                       !.uid = 2, !.form = "desc",
                                       !.label = << "logo" >> ]

(***************************************************************************)
(* C34.  A scroll left or right that succeeds makes one swipe along the    *)
(* horizontal centre line, centred on the screen midpoint, whose extent    *)
(* comes from one-third of the screen width, right being left with start   *)
(* and end swapped; a scroll up or down makes one along the vertical       *)
(* centre line whose extent comes from one-third of the screen height, up  *)
(* being down with start and end swapped.  The extent is taken as met by   *)
(* either reading: the third is the whole stroke or the reach of each end. *)
(***************************************************************************)
Scrolled(dirs) ==
    /\ exec_count > 0
    /\ exec_action.action = "scroll"
    /\ exec_action.direction \in dirs
    /\ exec_result.ok

FromThird(from, to, side) ==
    to - from \in { side \div 3, 2 * (side \div 3) }

C34_HorizontalScrollUsesWidth ==
    LET h == display.displayHeight
        w == display.displayWidth
        s == Swipes(exec_result.cmds)[1]
        one == Len(Swipes(exec_result.cmds)) = 1
    IN  /\ Scrolled({ Some("left") })
           => /\ one
              /\ s.y = h \div 2 /\ s.y2 = h \div 2
              /\ s.x + s.x2 = 2 * (w \div 2)
              /\ FromThird(s.x2, s.x, w)
        /\ Scrolled({ Some("right") })
           => /\ one
              /\ s.y = h \div 2 /\ s.y2 = h \div 2
              /\ s.x + s.x2 = 2 * (w \div 2)
              /\ FromThird(s.x, s.x2, w)
        /\ Scrolled({ Absent, Some(""), Some("down") })
           => /\ one
              /\ s.x = w \div 2 /\ s.x2 = w \div 2
              /\ s.y + s.y2 = 2 * (h \div 2)
              /\ FromThird(s.y2, s.y, h)
        /\ Scrolled({ Some("up") })
           => /\ one
              /\ s.x = w \div 2 /\ s.x2 = w \div 2
              /\ s.y + s.y2 = 2 * (h \div 2)
              /\ FromThird(s.y, s.y2, h)

(***************************************************************************)
(* C35.  Over a run, with and without confirmation, no invocation is       *)
(* dispatched to a tool twice, and the invocations a step dispatches are   *)
(* those of the latest reply and none that an earlier step dispatched.     *)
(***************************************************************************)
Ids(s) == { s[i] : i \in 1..Len(s) }

NoneTwice == \A i, j \in 1..Len(invoked) : invoked[i] = invoked[j] => i = j

OnlyTheLatestReply ==
    invoked' # invoked
    => /\ node = "act" /\ messages # << >>
       /\ Len(invoked') > Len(invoked)
       /\ SubSeq(invoked', 1, Len(invoked)) = invoked
       /\ \A k \in (Len(invoked) + 1)..Len(invoked') :
             /\ invoked'[k] \in Ids(IdsOf(messages[Len(messages)].tool_calls))
             /\ invoked'[k] \notin Ids(invoked)
             /\ invoked'[k] \div 10 = step_count

C35_EachInvocationConsumedOnce == []NoneTwice /\ [][OnlyTheLatestReply]_vars

C35_Witness ==
    /\ confirm_actions /\ step_count = 2 /\ node = "perceive"
    /\ Len(invoked) >= 3
    /\ \E i \in 1..Len(messages) : Len(messages[i].tool_calls) = 2

(***************************************************************************)
(* C36.  In both graphs the route chosen when Reason finishes is act, end  *)
(* or perceive, never wait_for_input: the status is not needs_input then,  *)
(* and the graph never stands at a target that does not exist.             *)
(***************************************************************************)
RouteHasEdge ==
    node = "reason"
    => /\ status' # "needs_input"
       /\ should_continue(status', messages', step_count')
             \in { "act", "end", "perceive" }
       /\ node' \in { "act", "human_review", "END", "perceive" }

NeverOffTheGraph == node # "NO_EDGE"

C36_RoutingAlwaysHasATarget == []NeverOffTheGraph /\ [][RouteHasEdge]_vars

C36_Witness ==
    /\ confirm_actions /\ node = "human_review" /\ step_count = 2
    /\ pending_confirmation # << >> /\ status = "running"

(***************************************************************************)
(* C37.  For every element of the registry the tap point of a click lies   *)
(* inside the element's rectangle, left <= x < right and top <= y <        *)
(* bottom, and so does the point a click on the element sends to the       *)
(* device.                                                                 *)
(***************************************************************************)
Inside(x, y, bounds) ==
    /\ bounds[1] <= x /\ x < bounds[3]
    /\ bounds[2] <= y /\ y < bounds[4]

\* the rectangles _parse_node keeps (vision.py:143), up to a small size
SmallRectangles ==
    { b \in (0..3) \X (0..3) \X (0..3) \X (0..3) : b[3] > b[1] /\ b[4] > b[2] }

C37_TapPointInsideElement ==
    /\ \A i \in 1..Len(current_elements) :
          LET el == current_elements[i]
          IN  /\ Inside(GetCenter(el)[1], GetCenter(el)[2], el.bounds)
              /\ (ClickOn(el.uid) /\ ElementsByUid(current_elements, el.uid)[1] = el)
                 => /\ Len(exec_result.cmds) = 1
                    /\ exec_result.cmds[1].cmd = "click"
                    /\ Inside(exec_result.cmds[1].x, exec_result.cmds[1].y, el.bounds)
    /\ \A b \in SmallRectangles :
          LET c == GetCenter([ bounds |-> b ]) IN Inside(c[1], c[2], b)

C37_Witness ==
    /\ ClickOn(2) /\ InRegistry(2) /\ Len(current_elements) = 2
    /\ current_elements[2].bounds = << 5, 5, 8, 10 >>
    /\ exec_result.cmds # << >> /\ exec_result.cmds[1].x = 6
    /\ ~exec_result.ok

(***************************************************************************)
(* C38.  Whenever Act executes a click, the request that produced the      *)
(* click showed the oracle the summary of the registry the click is        *)
(* resolved against, and no capture replaces the registry between that     *)
(* request and the click.                                                  *)
(***************************************************************************)
\* the latest request ended with the whole summary of the current registry
ShownCurrentRegistry ==
    /\ request # << >>
    /\ "screen" \in request[Len(request)].ctx
    /\ request[Len(request)].context.screen.cut = 0
    /\ ui_state.kind = "ok"
    /\ request[Len(request)].context.screen.lines = GetUiSummary(ui_state)

\* a get_screen_state invocation stands before a click of the same reply
LookBeforeClick(calls) ==
    \E i, j \in 1..Len(calls) :
        i < j /\ calls[i].name = "get_screen_state" /\ calls[j].name = "click_element"

ClickResolvedAsShown ==
    ( /\ node = "act"
      /\ \E i \in 1..Len(Calls(messages)) : Calls(messages)[i].name = "click_element" )
    => /\ ShownCurrentRegistry
       /\ ~LookBeforeClick(Calls(messages))

C38_ClickUsesTheRegistryShown == [][ClickResolvedAsShown]_vars

(***************************************************************************)
(* C39.  Every run that run_task starts begins with a conversation log     *)
(* that holds the goal message of that call and nothing else, also when    *)
(* several tasks are run one after the other on one thread: the oracle of  *)
(* a later run is shown no entry of an earlier run.                        *)
(***************************************************************************)
StartOfARun == node = "perceive" /\ step_count = 0 /\ yields = 0

C39_RunStartsWithItsGoalAlone ==
    /\ StartOfARun => messages = << HumanMessage("goal") >>
    /\ (runs > 1 /\ request # << >> /\ oracle_calls > 0 /\ step_count = 1
           /\ node \in { "act", "human_review", "END" })
       => Len(SelectSeq(request, LAMBDA m : m.type = "ai" \/ m.type = "tool")) = 0

=============================================================================
